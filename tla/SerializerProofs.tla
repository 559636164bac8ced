---------------------------- MODULE SerializerProofs ----------------------------
(***************************************************************************)
(* Proofs about the serializer, for every schema and everything a caller   *)
(* can put together: which requests are written, and that they read back.  *)
(*                                                                         *)
(* Serialize and Meant are defined along the nesting of objects, and so    *)
(* are the proofs: an object is read back if the objects in it are.        *)
(* Within one object the reader goes along the parts of the text.  A part  *)
(* that stands where the reader is gives the field its meaning: a flags    *)
(* word gives the bits, and the bit tells whether a value follows; this is *)
(* where fields that share a bit have to agree.  `Encodes` says so of one  *)
(* value: wherever it stands, the reader takes it for what it means, with  *)
(* as many levels as it has tokens.                                        *)
(*                                                                         *)
(* ReceivedObjectsProofs has the induction and the laws of FlattenSeq.     *)
(***************************************************************************)
EXTENDS ReceivedObjectsProofs, SchemaSerializer, FiniteSetTheorems

-----------------------------------------------------------------------------
(* What serialize writes.  First, how many of a list's places are in a     *)
(* set: the fields that take a value, and the flags words.                 *)
Counted(P, j) == Cardinality({i \in 1 .. j : i \in P})

LEMMA CountingSteps ==
    ASSUME NEW P
    PROVE  /\ Counted(P, 0) = 0
           /\ \A j \in Nat :
                 /\ Counted(P, j) \in Nat
                 /\ Counted(P, j + 1) = Counted(P, j) + (IF j + 1 \in P THEN 1 ELSE 0)
<1> DEFINE S(j) == {i \in 1 .. j : i \in P}
<1>1. ASSUME NEW j \in Nat PROVE IsFiniteSet(S(j)) /\ Cardinality(S(j)) \in Nat
  <2>1. IsFiniteSet(1 .. j)
    BY FS_Interval
  <2>2. S(j) \in SUBSET (1 .. j)
    OBVIOUS
  <2>3. IsFiniteSet(S(j))
    BY <2>1, <2>2, FS_Subset
  <2> QED
    BY <2>3, FS_CardinalityType
<1>2. S(0) = {}
  OBVIOUS
<1>3. ASSUME NEW j \in Nat, j + 1 \in P
      PROVE  Cardinality(S(j + 1)) = Cardinality(S(j)) + 1
  <2>1. S(j + 1) = S(j) \cup {j + 1} /\ j + 1 \notin S(j)
    BY <1>3
  <2> HIDE DEF S
  <2> QED
    BY <1>1, <2>1, FS_AddElement
<1>4. ASSUME NEW j \in Nat, j + 1 \notin P
      PROVE  S(j + 1) = S(j)
  BY <1>4
<1>5. \A j : Counted(P, j) = Cardinality(S(j))
  BY DEF Counted
<1> HIDE DEF S
<1>6. Counted(P, 0) = 0
  BY <1>2, <1>5, FS_EmptySet
<1>7. ASSUME NEW j \in Nat
      PROVE  /\ Counted(P, j) \in Nat
             /\ Counted(P, j + 1) = Counted(P, j) + (IF j + 1 \in P THEN 1 ELSE 0)
  <2>1. CASE j + 1 \in P
    BY <1>1, <1>3, <1>5, <2>1
  <2>2. CASE j + 1 \notin P
    BY <1>1, <1>4, <1>5, <2>2
  <2> QED
    BY <2>1, <2>2
<1> QED
  BY <1>6, <1>7

LEMMA CountingGrows ==
    ASSUME NEW P, NEW i \in Nat, NEW j \in Nat, i <= j
    PROVE  Counted(P, i) <= Counted(P, j)
<1> DEFINE T == {n \in Nat : Counted(P, i) <= Counted(P, i + n)}
<1>1. ASSUME NEW k \in Nat
      PROVE  Counted(P, k) \in Nat /\ Counted(P, k + 1) >= Counted(P, k)
  <2>1. /\ Counted(P, k) \in Nat
        /\ Counted(P, k + 1) = Counted(P, k) + (IF k + 1 \in P THEN 1 ELSE 0)
    BY CountingSteps
  <2> QED
    BY <2>1
<1>2. 0 \in T
  BY <1>1
<1>3. \A n \in Nat : n \in T => n + 1 \in T
  <2>1. SUFFICES ASSUME NEW n \in Nat, n \in T PROVE n + 1 \in T
    OBVIOUS
  <2>2. i + n \in Nat /\ (i + n) + 1 = i + (n + 1)
    OBVIOUS
  <2>3. Counted(P, i + (n + 1)) >= Counted(P, i + n)
    BY <1>1, <2>2
  <2>4. Counted(P, i) \in Nat /\ Counted(P, i + n) \in Nat /\ Counted(P, i + (n + 1)) \in Nat
    BY <1>1, <2>2
  <2> QED
    BY <2>1, <2>3, <2>4
<1>4. Nat \subseteq T
  <2> HIDE DEF T
  <2> QED
    BY <1>2, <1>3, Induction, Zenon
<1>5. j - i \in T
  BY <1>4
<1>6. i + (j - i) = j
  OBVIOUS
<1> QED
  BY <1>5, <1>6

LEMMA CountingTells ==
    ASSUME NEW P, NEW i \in Nat, NEW j \in Nat, j \in P, i < j
    PROVE  Counted(P, i) < Counted(P, j)
<1>1. j - 1 \in Nat /\ (j - 1) + 1 = j /\ i <= j - 1
  OBVIOUS
<1>2. Counted(P, j) = Counted(P, j - 1) + 1 /\ Counted(P, j - 1) \in Nat
  BY <1>1, CountingSteps
<1>3. Counted(P, i) <= Counted(P, j - 1) /\ Counted(P, i) \in Nat
  BY <1>1, CountingGrows, CountingSteps
<1> QED
  BY <1>2, <1>3

LEMMA CountingReaches ==
    ASSUME NEW P, NEW m \in Nat, NEW n \in 1 .. Counted(P, m)
    PROVE  \E j \in 1 .. m : j \in P /\ Counted(P, j) = n
<1> DEFINE T == {k \in Nat : n <= Counted(P, k) =>
                               \E j \in 1 .. k : j \in P /\ Counted(P, j) = n}
<1>1. Counted(P, 0) = 0
  BY CountingSteps
<1>2. 0 \in T
  BY <1>1
<1>3. \A k \in Nat : k \in T => k + 1 \in T
  <2>1. SUFFICES ASSUME NEW k \in Nat, k \in T, n <= Counted(P, k + 1)
                 PROVE  \E j \in 1 .. k + 1 : j \in P /\ Counted(P, j) = n
    OBVIOUS
  <2>2. /\ Counted(P, k) \in Nat
        /\ Counted(P, k + 1) = Counted(P, k) + (IF k + 1 \in P THEN 1 ELSE 0)
    BY CountingSteps
  <2>3. CASE n <= Counted(P, k)
    BY <2>1, <2>3
  <2>4. CASE ~ (n <= Counted(P, k))
    BY <2>1, <2>2, <2>4
  <2> QED
    BY <2>3, <2>4
<1>4. Nat \subseteq T
  <2> HIDE DEF T
  <2> QED
    BY <1>2, <1>3, Induction, Zenon
<1>5. m \in T
  BY <1>4
<1>6. n <= Counted(P, m)
  BY CountingSteps
<1> QED
  BY <1>5, <1>6

(* The fields of a constructor, in this order.                             *)
Fields == Seq([ty : STRING, flags : Nat, bit : Nat])

LEMMA Numbering ==
    ASSUME NEW fields \in Fields
    PROVE  /\ NumberOf(fields, 0) = 0 /\ WordsBefore(fields, 1) = 0
           /\ \A j \in Nat : NumberOf(fields, j) \in Nat /\ WordsBefore(fields, j + 1) \in Nat
           /\ \A j \in 1 .. Len(fields) :
                 IF IsFlagsWord(fields[j])
                 THEN /\ NumberOf(fields, j) = NumberOf(fields, j - 1)
                      /\ WordsBefore(fields, j + 1) = WordsBefore(fields, j) + 1
                 ELSE /\ NumberOf(fields, j) = NumberOf(fields, j - 1) + 1
                      /\ WordsBefore(fields, j + 1) = WordsBefore(fields, j)
                      /\ NumberOf(fields, j) \in 1 .. NumberOf(fields, Len(fields))
                      /\ FieldNumbered(fields, NumberOf(fields, j)) = j
           /\ \A n \in 1 .. NumberOf(fields, Len(fields)) :
                 \E j \in 1 .. Len(fields) :
                    ~IsFlagsWord(fields[j]) /\ NumberOf(fields, j) = n
<1> DEFINE P == {i \in Nat : ~IsFlagsWord(fields[i])}
           W == {i \in Nat : IsFlagsWord(fields[i])}
<1>1. Len(fields) \in Nat /\ DOMAIN fields = 1 .. Len(fields)
  BY DEF Fields
<1>2. \A j \in Nat : NumberOf(fields, j) = Counted(P, j)
  <2>1. SUFFICES ASSUME NEW j \in Nat PROVE NumberOf(fields, j) = Counted(P, j)
    OBVIOUS
  <2>2. {i \in 1 .. j : ~IsFlagsWord(fields[i])} = {i \in 1 .. j : i \in P}
    OBVIOUS
  <2> QED
    BY <2>2, Zenon DEF NumberOf, Counted
<1>3. \A j \in Nat : WordsBefore(fields, j + 1) = Counted(W, j)
  <2>1. SUFFICES ASSUME NEW j \in Nat PROVE WordsBefore(fields, j + 1) = Counted(W, j)
    OBVIOUS
  <2>2. {i \in 1 .. (j + 1) - 1 : IsFlagsWord(fields[i])} = {i \in 1 .. j : i \in W}
    OBVIOUS
  <2> QED
    BY <2>2, Zenon DEF WordsBefore, Counted
<1>4. \A j \in 1 .. Len(fields) : j \in P <=> ~IsFlagsWord(fields[j])
  OBVIOUS
<1>5. \A j \in 1 .. Len(fields) : j \in W <=> IsFlagsWord(fields[j])
  OBVIOUS
<1> HIDE DEF P, W
<1>6. NumberOf(fields, 0) = 0 /\ WordsBefore(fields, 1) = 0
  <2>1. NumberOf(fields, 0) = Counted(P, 0) /\ WordsBefore(fields, 0 + 1) = Counted(W, 0)
    BY <1>2, <1>3
  <2> QED
    BY <2>1, CountingSteps
<1>7. \A j \in Nat : NumberOf(fields, j) \in Nat /\ WordsBefore(fields, j + 1) \in Nat
  <2>1. \A j \in Nat : Counted(P, j) \in Nat /\ Counted(W, j) \in Nat
    BY CountingSteps, Zenon
  <2> QED
    BY <1>2, <1>3, <2>1
<1>8. ASSUME NEW j \in 1 .. Len(fields)
      PROVE  /\ NumberOf(fields, j) = NumberOf(fields, j - 1) + (IF j \in P THEN 1 ELSE 0)
             /\ WordsBefore(fields, j + 1) = WordsBefore(fields, j) + (IF j \in W THEN 1 ELSE 0)
  <2>1. j - 1 \in Nat /\ (j - 1) + 1 = j /\ j \in Nat
    OBVIOUS
  <2>2. /\ Counted(P, (j - 1) + 1) = Counted(P, j - 1) + (IF (j - 1) + 1 \in P THEN 1 ELSE 0)
        /\ Counted(W, (j - 1) + 1) = Counted(W, j - 1) + (IF (j - 1) + 1 \in W THEN 1 ELSE 0)
    BY <2>1, CountingSteps, Zenon
  <2>3. /\ NumberOf(fields, j) = Counted(P, j) /\ NumberOf(fields, j - 1) = Counted(P, j - 1)
        /\ WordsBefore(fields, j + 1) = Counted(W, j)
        /\ WordsBefore(fields, (j - 1) + 1) = Counted(W, j - 1)
    BY <1>2, <1>3, <2>1, Zenon
  <2> QED
    BY <2>1, <2>2, <2>3, Zenon
<1>9. ASSUME NEW j \in 1 .. Len(fields), j \in P
      PROVE  /\ NumberOf(fields, j) \in 1 .. NumberOf(fields, Len(fields))
             /\ FieldNumbered(fields, NumberOf(fields, j)) = j
  <2>1. j \in Nat /\ j - 1 \in Nat /\ j <= Len(fields)
    BY <1>1
  <2>2. NumberOf(fields, j) = NumberOf(fields, j - 1) + 1
    BY <1>8, <1>9
  <2>3. NumberOf(fields, j) <= NumberOf(fields, Len(fields))
    BY <1>1, <1>2, <2>1, CountingGrows
  <2>4. ASSUME NEW i \in DOMAIN fields, ~IsFlagsWord(fields[i]),
               NumberOf(fields, i) = NumberOf(fields, j)
        PROVE  i = j
    <3>1. i \in Nat /\ i \in P
      BY <1>1, <1>4, <2>4
    <3>2. Counted(P, i) = Counted(P, j) /\ Counted(P, i) \in Nat
      BY <1>2, <2>1, <2>4, <3>1, CountingSteps
    <3>3. ~ (i < j)
      BY <1>9, <2>1, <3>1, <3>2, CountingTells
    <3>4. ~ (j < i)
      BY <1>9, <2>1, <3>1, <3>2, CountingTells
    <3> QED
      BY <2>1, <3>1, <3>3, <3>4
  <2>5. FieldNumbered(fields, NumberOf(fields, j))
          = CHOOSE i \in DOMAIN fields :
              ~IsFlagsWord(fields[i]) /\ NumberOf(fields, i) = NumberOf(fields, j)
    BY Zenon DEF FieldNumbered, NumberOf
  <2>6. j \in DOMAIN fields /\ ~IsFlagsWord(fields[j])
    BY <1>1, <1>4, <1>9
  <2>7. FieldNumbered(fields, NumberOf(fields, j)) = j
    BY <2>4, <2>5, <2>6, Zenon
  <2> QED
    BY <1>7, <2>1, <2>2, <2>3, <2>7
<1>10. ASSUME NEW n \in 1 .. NumberOf(fields, Len(fields))
       PROVE  \E j \in 1 .. Len(fields) :
                 ~IsFlagsWord(fields[j]) /\ NumberOf(fields, j) = n
  <2>1. n \in 1 .. Counted(P, Len(fields))
    BY <1>1, <1>2
  <2>2. PICK j \in 1 .. Len(fields) : j \in P /\ Counted(P, j) = n
    BY <1>1, <2>1, CountingReaches
  <2>3. NumberOf(fields, j) = n
    BY <1>2, <2>2
  <2> QED
    BY <1>4, <2>2, <2>3
<1>11. ASSUME NEW j \in 1 .. Len(fields)
       PROVE  IF IsFlagsWord(fields[j])
              THEN /\ NumberOf(fields, j) = NumberOf(fields, j - 1)
                   /\ WordsBefore(fields, j + 1) = WordsBefore(fields, j) + 1
              ELSE /\ NumberOf(fields, j) = NumberOf(fields, j - 1) + 1
                   /\ WordsBefore(fields, j + 1) = WordsBefore(fields, j)
                   /\ NumberOf(fields, j) \in 1 .. NumberOf(fields, Len(fields))
                   /\ FieldNumbered(fields, NumberOf(fields, j)) = j
  <2>1. /\ j - 1 \in Nat /\ (j - 1) + 1 = j
    OBVIOUS
  <2>2. NumberOf(fields, j - 1) \in Nat /\ WordsBefore(fields, (j - 1) + 1) \in Nat
    BY <1>7, <2>1, Zenon
  <2>3. WordsBefore(fields, j) \in Nat
    BY <2>1, <2>2, Zenon
  <2>4. CASE IsFlagsWord(fields[j])
    BY <1>4, <1>5, <1>8, <2>2, <2>3, <2>4
  <2>5. CASE ~IsFlagsWord(fields[j])
    BY <1>4, <1>5, <1>8, <1>9, <2>2, <2>3, <2>5
  <2> QED
    BY <2>4, <2>5
<1> QED
  BY <1>6, <1>7, <1>10, <1>11

-----------------------------------------------------------------------------
(* Sequences of whatever, and where they stand in a text.                  *)
IsSeq(s) == \E S : s \in Seq(S)

LEMMA SeqFacts ==
    ASSUME NEW s, IsSeq(s)
    PROVE  Len(s) \in Nat /\ DOMAIN s = 1 .. Len(s)
<1>1. PICK S : s \in Seq(S)
  BY DEF IsSeq
<1> QED
  BY <1>1

LEMMA SeqsInOne ==
    ASSUME NEW s, NEW t, IsSeq(s), IsSeq(t)
    PROVE  \E S : s \in Seq(S) /\ t \in Seq(S)
<1>1. PICK A : s \in Seq(A)
  BY DEF IsSeq
<1>2. PICK B : t \in Seq(B)
  BY DEF IsSeq
<1>3. s \in Seq(A \cup B) /\ t \in Seq(A \cup B)
  BY <1>1, <1>2
<1> QED
  BY <1>3

LEMMA Concatenated ==
    ASSUME NEW s, NEW t, IsSeq(s), IsSeq(t)
    PROVE  /\ IsSeq(s \o t) /\ Len(s \o t) = Len(s) + Len(t)
           /\ Len(s) \in Nat /\ Len(t) \in Nat
           /\ \A i \in 1 .. Len(s) : (s \o t)[i] = s[i]
           /\ \A i \in 1 .. Len(t) : (s \o t)[Len(s) + i] = t[i]
<1>1. PICK S : s \in Seq(S) /\ t \in Seq(S)
  BY SeqsInOne
<1>2. /\ s \o t \in Seq(S)
      /\ Len(s \o t) = Len(s) + Len(t)
      /\ \A i \in 1 .. Len(s) + Len(t) :
            (s \o t)[i] = IF i <= Len(s) THEN s[i] ELSE t[i - Len(s)]
  BY <1>1, ConcatProperties
<1>3. Len(s) \in Nat /\ Len(t) \in Nat
  BY <1>1
<1>4. ASSUME NEW i \in 1 .. Len(s) PROVE (s \o t)[i] = s[i]
  BY <1>2, <1>3
<1>5. ASSUME NEW i \in 1 .. Len(t) PROVE (s \o t)[Len(s) + i] = t[i]
  <2>1. Len(s) + i \in 1 .. Len(s) + Len(t) /\ ~ (Len(s) + i <= Len(s)) /\ (Len(s) + i) - Len(s) = i
    BY <1>3
  <2> QED
    BY <1>2, <2>1
<1>6. IsSeq(s \o t)
  BY <1>2 DEF IsSeq
<1> QED
  BY <1>2, <1>3, <1>4, <1>5, <1>6

Stands(in, at, s) ==
    /\ Len(in) \in Nat /\ at \in Nat \ {0}
    /\ at + Len(s) <= Len(in) + 1
    /\ \A i \in 1 .. Len(s) : in[at + i - 1] = s[i]

LEMMA StandsSplit ==
    ASSUME NEW s, NEW t, IsSeq(s), IsSeq(t), NEW in, NEW at, Stands(in, at, s \o t)
    PROVE  Stands(in, at, s) /\ Stands(in, at + Len(s), t)
<1>1. /\ Len(s \o t) = Len(s) + Len(t) /\ Len(s) \in Nat /\ Len(t) \in Nat
      /\ \A i \in 1 .. Len(s) : (s \o t)[i] = s[i]
      /\ \A i \in 1 .. Len(t) : (s \o t)[Len(s) + i] = t[i]
  BY Concatenated
<1>2. /\ Len(in) \in Nat /\ at \in Nat \ {0}
      /\ at + (Len(s) + Len(t)) <= Len(in) + 1
      /\ \A i \in 1 .. Len(s) + Len(t) : in[at + i - 1] = (s \o t)[i]
  BY <1>1 DEF Stands
<1>3. ASSUME NEW i \in 1 .. Len(s) PROVE in[at + i - 1] = s[i]
  BY <1>1, <1>2
<1>4. ASSUME NEW i \in 1 .. Len(t) PROVE in[(at + Len(s)) + i - 1] = t[i]
  <2>1. Len(s) + i \in 1 .. Len(s) + Len(t) /\ at + (Len(s) + i) - 1 = (at + Len(s)) + i - 1
    BY <1>1, <1>2
  <2>2. in[at + (Len(s) + i) - 1] = (s \o t)[Len(s) + i]
    BY <1>2, <2>1
  <2> QED
    BY <1>1, <2>1, <2>2
<1>5. /\ at + Len(s) <= Len(in) + 1 /\ at + Len(s) \in Nat \ {0}
      /\ (at + Len(s)) + Len(t) <= Len(in) + 1
  BY <1>1, <1>2
<1> QED
  BY <1>2, <1>3, <1>4, <1>5 DEF Stands

LEMMA FirstStands ==
    ASSUME NEW e, NEW s, IsSeq(s), NEW in, NEW at, Stands(in, at, <<e>> \o s)
    PROVE  /\ at \in 1 .. Len(in) /\ in[at] = e /\ Stands(in, at + 1, s)
           /\ IsSeq(<<e>> \o s) /\ Len(<<e>> \o s) = Len(s) + 1
<1>1. IsSeq(<<e>>)
  <2>1. <<e>> \in Seq({e})
    OBVIOUS
  <2> QED
    BY <2>1 DEF IsSeq
<1>2. Len(<<e>>) = 1 /\ <<e>>[1] = e
  OBVIOUS
<1>3. /\ Stands(in, at, <<e>>) /\ Stands(in, at + 1, s)
      /\ IsSeq(<<e>> \o s) /\ Len(<<e>> \o s) = 1 + Len(s) /\ Len(s) \in Nat
  <2>1. Stands(in, at, <<e>>) /\ Stands(in, at + Len(<<e>>), s)
    BY <1>1, StandsSplit
  <2> QED
    BY <1>1, <1>2, <2>1, Concatenated
<1>4. at \in Nat \ {0} /\ Len(in) \in Nat /\ at + 1 <= Len(in) + 1 /\ in[at + 1 - 1] = e
  <2> DEFINE s1 == <<e>>
  <2>1. Len(s1) = 1 /\ s1[1] = e /\ Stands(in, at, s1)
    BY <1>2, <1>3
  <2> HIDE DEF s1
  <2> QED
    BY <2>1 DEF Stands
<1>5. at + 1 - 1 = at
  BY <1>4
<1> QED
  BY <1>3, <1>4, <1>5

(* Parts one behind the other: the k-th ends behind PartsLength(outs, k).  *)
PartsLength(outs, k) == Len(FlattenSeq(SubSeq(outs, 1, k)))

LEMMA SeqsOfParts ==
    ASSUME NEW outs, IsSeq(outs), \A k \in 1 .. Len(outs) : IsSeq(outs[k])
    PROVE  \E S : outs \in Seq(Seq(S))
<1>1. Len(outs) \in Nat /\ DOMAIN outs = 1 .. Len(outs)
  BY SeqFacts
<1> DEFINE S == UNION {{outs[k][i] : i \in 1 .. Len(outs[k])} : k \in 1 .. Len(outs)}
<1>2. ASSUME NEW k \in 1 .. Len(outs) PROVE outs[k] \in Seq(S)
  <2>1. PICK A : outs[k] \in Seq(A)
    BY DEF IsSeq
  <2>2. \A i \in 1 .. Len(outs[k]) : outs[k][i] \in S
    OBVIOUS
  <2> HIDE DEF S
  <2> QED
    BY <2>1, <2>2
<1>3. PICK B : outs \in Seq(B)
  BY DEF IsSeq
<1>4. outs \in Seq(Seq(S))
  <2> HIDE DEF S
  <2> QED
    BY <1>2, <1>3
<1> QED
  BY <1>4

LEMMA PartsStand ==
    ASSUME NEW outs, IsSeq(outs), \A k \in 1 .. Len(outs) : IsSeq(outs[k])
    PROVE  /\ IsSeq(FlattenSeq(outs))
           /\ PartsLength(outs, 0) = 0 /\ PartsLength(outs, Len(outs)) = Len(FlattenSeq(outs))
           /\ \A k \in 0 .. Len(outs) : PartsLength(outs, k) \in Nat
           /\ \A k \in 1 .. Len(outs) :
                 /\ Len(outs[k]) \in Nat
                 /\ PartsLength(outs, k) = PartsLength(outs, k - 1) + Len(outs[k])
           /\ \A in, at : Stands(in, at, FlattenSeq(outs)) =>
                 \A k \in 1 .. Len(outs) : Stands(in, at + PartsLength(outs, k - 1), outs[k])
<1>1. PICK S : outs \in Seq(Seq(S))
  BY SeqsOfParts
<1>2. Len(outs) \in Nat
  BY <1>1
<1>3. IsSeq(FlattenSeq(outs))
  BY <1>1, FlattenType DEF IsSeq
<1>4. SubSeq(outs, 1, 0) = <<>> /\ SubSeq(outs, 1, Len(outs)) = outs
  <2>1. SubSeq(outs, 1, 0) = <<>>
    BY SubSeqEmpty
  <2> QED
    BY <1>1, <2>1, SubSeqFull
<1>5. PartsLength(outs, 0) = 0 /\ PartsLength(outs, Len(outs)) = Len(FlattenSeq(outs))
  <2>1. Len(<<>>) = 0
    OBVIOUS
  <2> QED
    BY <1>4, <2>1, FlattenEmpty, Zenon DEF PartsLength
<1>6. \A k \in 0 .. Len(outs) : FlattenSeq(SubSeq(outs, 1, k)) \in Seq(S)
  BY <1>1, FlattenSplit
<1>7. \A k \in 0 .. Len(outs) : PartsLength(outs, k) \in Nat
  BY <1>6 DEF PartsLength
<1>8. ASSUME NEW k \in 1 .. Len(outs)
      PROVE  /\ k - 1 \in 0 .. Len(outs) /\ outs[k] \in Seq(S)
             /\ FlattenSeq(SubSeq(outs, 1, k)) = FlattenSeq(SubSeq(outs, 1, k - 1)) \o outs[k]
             /\ PartsLength(outs, k) = PartsLength(outs, k - 1) + Len(outs[k])
  <2>1. outs[k] \in Seq(S) /\ k - 1 \in 0 .. Len(outs)
    BY <1>1, <1>2
  <2>2. /\ SubSeq(outs, 1, k) = Append(SubSeq(outs, 1, k - 1), outs[k])
        /\ SubSeq(outs, 1, k - 1) \in Seq(Seq(S))
    BY <1>1, <1>2
  <2>3. FlattenSeq(SubSeq(outs, 1, k)) = FlattenSeq(SubSeq(outs, 1, k - 1)) \o outs[k]
    BY <2>1, <2>2, FlattenAppend
  <2>4. FlattenSeq(SubSeq(outs, 1, k - 1)) \in Seq(S)
    BY <1>6, <2>1
  <2>5. Len(FlattenSeq(SubSeq(outs, 1, k - 1)) \o outs[k])
          = Len(FlattenSeq(SubSeq(outs, 1, k - 1))) + Len(outs[k])
    BY <2>1, <2>4, ConcatProperties
  <2> QED
    BY <2>1, <2>3, <2>5 DEF PartsLength
<1>9. ASSUME NEW in, NEW at, Stands(in, at, FlattenSeq(outs)), NEW k \in 1 .. Len(outs)
      PROVE  Stands(in, at + PartsLength(outs, k - 1), outs[k])
  <2> DEFINE before == FlattenSeq(SubSeq(outs, 1, k - 1))
             upto == FlattenSeq(SubSeq(outs, 1, k))
  <2>1. before \in Seq(S) /\ upto \in Seq(S) /\ outs[k] \in Seq(S) /\ upto = before \o outs[k]
    <3>1. k \in 0 .. Len(outs)
      BY <1>2
    <3> QED
      BY <1>6, <1>8, <3>1, Zenon
  <2>2. PICK rest \in Seq(S) : FlattenSeq(outs) = upto \o rest
    <3>1. k \in 0 .. Len(outs)
      BY <1>2
    <3> QED
      BY <1>1, <3>1, FlattenSplit, Zenon
  <2>3. IsSeq(before) /\ IsSeq(upto) /\ IsSeq(outs[k]) /\ IsSeq(rest)
    BY <2>1 DEF IsSeq
  <2>4. PartsLength(outs, k - 1) = Len(before)
    BY DEF PartsLength
  <2> HIDE DEF before, upto
  <2>5. Stands(in, at, upto)
    BY <1>9, <2>2, <2>3, StandsSplit
  <2>6. Stands(in, at + Len(before), outs[k])
    BY <2>1, <2>3, <2>5, StandsSplit
  <2> QED
    BY <2>4, <2>6
<1>10. \A k \in 1 .. Len(outs) : Len(outs[k]) \in Nat
  <2>1. \A k \in 1 .. Len(outs) : outs[k] \in Seq(S)
    BY <1>8
  <2> QED
    BY <2>1
<1> QED
  BY <1>3, <1>5, <1>7, <1>8, <1>9, <1>10

-----------------------------------------------------------------------------
(* The recursive functions exist: one level of nesting after the other.    *)
Shallower(n) == {o \in Objects : Nesting(o) < n}

LEMMA NestedIsShallower ==
    ASSUME NEW o \in Objects, NEW inner \in NestedIn(o)
    PROVE  /\ inner \in Objects /\ Nesting(inner) \in Nat /\ Nesting(o) \in Nat
           /\ Nesting(inner) < Nesting(o)
<1>1. inner \in UNION {NestedIn(object) : object \in Objects}
  BY Zenon
<1>2. inner \in Objects
  BY <1>1, ObjectsAssumption, Zenon
<1>3. Nesting(o) \in 0 .. MaxNesting /\ Nesting(inner) \in 0 .. MaxNesting /\ MaxNesting \in Nat
  BY <1>2, ObjectsAssumption, Zenon
<1>4. Nesting(inner) < Nesting(o)
  BY ObjectsAssumption, Zenon
<1> QED
  BY <1>2, <1>3, <1>4

LEMMA Levels ==
    /\ Shallower(0) = {} /\ MaxNesting \in Nat /\ Shallower(MaxNesting + 1) = Objects
    /\ \A n \in Nat : Shallower(n) \subseteq Shallower(n + 1)
    /\ \A n \in Nat : \A o \in Shallower(n + 1) : NestedIn(o) \subseteq Shallower(n)
<1>1. MaxNesting \in Nat /\ \A o \in Objects : Nesting(o) \in 0 .. MaxNesting
  BY ObjectsAssumption, Zenon
<1>2. ASSUME NEW n \in Nat, NEW o \in Shallower(n + 1), NEW inner \in NestedIn(o)
      PROVE  inner \in Shallower(n)
  <2>1. o \in Objects /\ Nesting(o) < n + 1
    BY DEF Shallower
  <2>2. /\ inner \in Objects /\ Nesting(inner) \in Nat /\ Nesting(o) \in Nat
        /\ Nesting(inner) < Nesting(o)
    BY <2>1, NestedIsShallower
  <2> QED
    BY <2>1, <2>2 DEF Shallower
<1>3. \A n \in Nat : Shallower(n) \subseteq Shallower(n + 1)
  BY <1>1 DEF Shallower
<1>4. Shallower(0) = {} /\ Shallower(MaxNesting + 1) = Objects
  BY <1>1 DEF Shallower
<1> QED
  BY <1>1, <1>2, <1>3, <1>4

(* What an object becomes depends on what the objects in it become.        *)
LEMMA ValueIsNested ==
    ASSUME NEW object, NEW n \in DOMAIN object.values, object.values[n].kind = "Boxed"
    PROVE  object.values[n].object \in NestedIn(object)
  BY DEF NestedIn

LEMMA ValueIs ==
    ASSUME NEW fields, NEW values, NEW j
    PROVE  \/ /\ NumberOf(fields, j) \in DOMAIN values
              /\ Value(fields, values, j) = values[NumberOf(fields, j)]
           \/ NumberOf(fields, j) \notin DOMAIN values /\ Value(fields, values, j) = Skip
  BY DEF Value

LEMMA WrittenByNested ==
    ASSUME NEW f, NEW g, NEW ty, NEW value,
           value.kind = "Boxed" => f[value.object] = g[value.object]
    PROVE  WriteValue(f, ty, value) = WriteValue(g, ty, value)
<1>1. CASE value.kind = "Boxed"
  BY <1>1 DEF WriteValue, IsListOf
<1>2. CASE value.kind # "Boxed"
  BY <1>2 DEF WriteValue
<1> QED
  BY <1>1, <1>2

LEMMA OutputByNested ==
    ASSUME NEW f, NEW g, NEW object, \A inner \in NestedIn(object) : f[inner] = g[inner]
    PROVE  ObjectOut(f, object) = ObjectOut(g, object)
<1> DEFINE fields == Schema[object.id]
<1>1. ASSUME NEW j \in DOMAIN fields
      PROVE  FieldOut(f, fields, object.values, j) = FieldOut(g, fields, object.values, j)
  <2> DEFINE value == Value(fields, object.values, j)
  <2>1. value.kind = "Boxed" => f[value.object] = g[value.object]
    <3>1. SUFFICES ASSUME value.kind = "Boxed" PROVE f[value.object] = g[value.object]
      OBVIOUS
    <3>2. value # Skip
      BY <3>1 DEF Skip
    <3>3. /\ NumberOf(fields, j) \in DOMAIN object.values
          /\ value = object.values[NumberOf(fields, j)]
      BY <3>2, ValueIs
    <3>4. value.object \in NestedIn(object)
      BY <3>1, <3>3, ValueIsNested
    <3> QED
      BY <3>4
  <2>2. WriteValue(f, fields[j].ty, value) = WriteValue(g, fields[j].ty, value)
    BY <2>1, WrittenByNested
  <2> QED
    BY <2>2, Zenon DEF FieldOut
<1>2. [j \in DOMAIN fields |-> FieldOut(f, fields, object.values, j)]
        = [j \in DOMAIN fields |-> FieldOut(g, fields, object.values, j)]
  BY <1>1, Zenon
<1> QED
  BY <1>2, Zenon DEF ObjectOut

LEMMA SerializeIs ==
    \A o \in Objects : Serialize[o] = ObjectOut(Serialize, o)
<1> DEFINE Upto(f, n) == f = [o \in Shallower(n) |-> ObjectOut(f, o)]
           T == {n \in Nat : \E f : Upto(f, n)}
<1>1. 0 \in T
  <2>1. Upto([o \in Shallower(0) |-> 0], 0)
    BY Levels
  <2> QED
    BY <2>1
<1>2. ASSUME NEW n \in Nat, n \in T PROVE n + 1 \in T
  <2>1. PICK f : Upto(f, n)
    BY <1>2
  <2> DEFINE g == [o \in Shallower(n + 1) |-> IF o \in Shallower(n) THEN f[o] ELSE ObjectOut(f, o)]
  <2>2. ASSUME NEW o \in Shallower(n + 1)
        PROVE  g[o] = ObjectOut(g, o)
    <3>1. \A inner \in NestedIn(o) : inner \in Shallower(n) /\ inner \in Shallower(n + 1)
      BY Levels, Zenon
    <3>2. \A inner \in NestedIn(o) : f[inner] = g[inner]
      BY <3>1, Zenon
    <3>3. ObjectOut(f, o) = ObjectOut(g, o)
      <4> HIDE DEF g
      <4> QED
        BY <3>2, OutputByNested, Zenon
    <3>4. o \in Shallower(n) => f[o] = ObjectOut(f, o)
      BY <2>1, Zenon
    <3>5. g[o] = ObjectOut(f, o)
      BY <3>4, Zenon
    <3> HIDE DEF g
    <3> QED
      BY <3>3, <3>5, Zenon
  <2>3. Upto(g, n + 1)
    <3>1. g = [o \in Shallower(n + 1) |-> g[o]]
      BY Zenon
    <3> HIDE DEF g
    <3> QED
      BY <2>2, <3>1, Zenon
  <2> HIDE DEF Upto
  <2> QED
    BY <2>3
<1>3. Nat \subseteq T
  <2> HIDE DEF T
  <2> QED
    BY <1>1, <1>2, Induction, Zenon
<1>4. MaxNesting + 1 \in T
  <2>1. MaxNesting + 1 \in Nat
    BY Levels
  <2> QED
    BY <1>3, <2>1, Zenon
<1>5. \E f : f = [o \in Objects |-> ObjectOut(f, o)]
  BY <1>4, Levels, Zenon
<1>6. Serialize = [o \in Objects |-> ObjectOut(Serialize, o)]
  BY <1>5, Zenon DEF Serialize
<1> QED
  BY <1>6, Zenon

LEMMA MeaningByNested ==
    ASSUME NEW f, NEW g, NEW object, \A inner \in NestedIn(object) : f[inner] = g[inner]
    PROVE  MeaningOf(f, object) = MeaningOf(g, object)
<1> DEFINE fields == Schema[object.id]
           values == object.values
<1>1. ASSUME NEW n \in DOMAIN values, NEW ty
      PROVE  Meaning(f, ty, values[n]) = Meaning(g, ty, values[n])
  <2>1. values[n].kind = "Boxed" => f[values[n].object] = g[values[n].object]
    BY ValueIsNested
  <2>2. CASE values[n].kind = "Boxed"
    BY <2>1, <2>2 DEF Meaning
  <2>3. CASE values[n].kind # "Boxed"
    BY <2>3 DEF Meaning
  <2> QED
    BY <2>2, <2>3
<1> DEFINE Of(h, n) == IF n \in DOMAIN values
                       THEN Meaning(h, fields[FieldNumbered(fields, n)].ty, values[n]) ELSE Absent
<1>2. \A n : Of(f, n) = Of(g, n)
  BY <1>1, Zenon
<1>3. /\ MeaningOf(f, object) = Node(object.id, [n \in 1 .. NumberOf(fields, Len(fields)) |-> Of(f, n)])
      /\ MeaningOf(g, object) = Node(object.id, [n \in 1 .. NumberOf(fields, Len(fields)) |-> Of(g, n)])
  BY Zenon DEF MeaningOf
<1> HIDE DEF Of
<1> QED
  BY <1>2, <1>3, Zenon

LEMMA MeantIs ==
    \A o \in Objects : Meant[o] = MeaningOf(Meant, o)
<1> DEFINE Upto(f, n) == f = [o \in Shallower(n) |-> MeaningOf(f, o)]
           T == {n \in Nat : \E f : Upto(f, n)}
<1>1. 0 \in T
  <2>1. Upto([o \in Shallower(0) |-> 0], 0)
    BY Levels
  <2> QED
    BY <2>1
<1>2. ASSUME NEW n \in Nat, n \in T PROVE n + 1 \in T
  <2>1. PICK f : Upto(f, n)
    BY <1>2
  <2> DEFINE g == [o \in Shallower(n + 1) |-> IF o \in Shallower(n) THEN f[o] ELSE MeaningOf(f, o)]
  <2>2. ASSUME NEW o \in Shallower(n + 1)
        PROVE  g[o] = MeaningOf(g, o)
    <3>1. \A inner \in NestedIn(o) : inner \in Shallower(n) /\ inner \in Shallower(n + 1)
      BY Levels, Zenon
    <3>2. \A inner \in NestedIn(o) : f[inner] = g[inner]
      BY <3>1, Zenon
    <3>3. MeaningOf(f, o) = MeaningOf(g, o)
      <4> HIDE DEF g
      <4> QED
        BY <3>2, MeaningByNested, Zenon
    <3>4. o \in Shallower(n) => f[o] = MeaningOf(f, o)
      BY <2>1, Zenon
    <3>5. g[o] = MeaningOf(f, o)
      BY <3>4, Zenon
    <3> HIDE DEF g
    <3> QED
      BY <3>3, <3>5, Zenon
  <2>3. Upto(g, n + 1)
    <3>1. g = [o \in Shallower(n + 1) |-> g[o]]
      BY Zenon
    <3> HIDE DEF g
    <3> QED
      BY <2>2, <3>1, Zenon
  <2> HIDE DEF Upto
  <2> QED
    BY <2>3
<1>3. Nat \subseteq T
  <2> HIDE DEF T
  <2> QED
    BY <1>1, <1>2, Induction, Zenon
<1>4. MaxNesting + 1 \in T
  <2>1. MaxNesting + 1 \in Nat
    BY Levels
  <2> QED
    BY <1>3, <2>1, Zenon
<1>5. \E f : f = [o \in Objects |-> MeaningOf(f, o)]
  BY <1>4, Levels, Zenon
<1>6. Meant = [o \in Objects |-> MeaningOf(Meant, o)]
  BY <1>5, Zenon DEF Meant
<1> QED
  BY <1>6, Zenon

(* The reader's levels, and the places at which a list of fields is read.  *)
Level(in, below, d) ==
    [at \in 1 .. Len(in) |-> [ty \in Types |->
        IF d = 0 THEN Unreadable ELSE ReadValue(in, below, at, ty)]]

LEMMA ReadingsAre ==
    ASSUME NEW in, Len(in) \in Nat, NEW d \in 1 .. Len(in), NEW at \in 1 .. Len(in),
           NEW ty \in Types
    PROVE  Readings(in)[d][at][ty] = ReadValue(in, Readings(in)[d - 1], at, ty)
<1> DEFINE Upto(f, n) == f = [k \in 0 .. n |-> Level(in, f[k - 1], k)]
           T == {n \in Nat : \E f : Upto(f, n)}
<1>1. \A a, b : Level(in, a, 0) = Level(in, b, 0)
  BY Zenon DEF Level
<1>2. 0 \in T
  <2> DEFINE f == [k \in 0 .. 0 |-> Level(in, 0, 0)]
  <2>1. ASSUME NEW k \in 0 .. 0 PROVE f[k] = Level(in, f[k - 1], k)
    <3>1. k = 0 /\ f[k] = Level(in, 0, 0)
      OBVIOUS
    <3> HIDE DEF f
    <3> QED
      BY <1>1, <3>1, Zenon
  <2>2. f = [k \in 0 .. 0 |-> f[k]]
    OBVIOUS
  <2>3. Upto(f, 0)
    <3> HIDE DEF f
    <3> QED
      BY <2>1, <2>2, Zenon
  <2> QED
    BY <2>3
<1>3. ASSUME NEW n \in Nat, n \in T PROVE n + 1 \in T
  <2>1. PICK f : Upto(f, n)
    BY <1>3
  <2> DEFINE g == [k \in 0 .. n + 1 |-> IF k <= n THEN f[k] ELSE Level(in, f[n], n + 1)]
  <2>2. ASSUME NEW k \in 0 .. n + 1 PROVE g[k] = Level(in, g[k - 1], k)
    <3>1. CASE k = 0
      <4>1. g[k] = f[k] /\ k \in 0 .. n
        BY <3>1
      <4>2. f[k] = Level(in, f[k - 1], k)
        BY <2>1, <4>1, Zenon
      <4> HIDE DEF g
      <4> QED
        BY <1>1, <3>1, <4>1, <4>2, Zenon
    <3>2. CASE k \in 1 .. n
      <4>1. g[k] = f[k] /\ k \in 0 .. n /\ g[k - 1] = f[k - 1]
        BY <3>2
      <4>2. f[k] = Level(in, f[k - 1], k)
        BY <2>1, <4>1, Zenon
      <4> HIDE DEF g
      <4> QED
        BY <4>1, <4>2, Zenon
    <3>3. CASE k = n + 1
      <4>1. k - 1 = n /\ g[k] = Level(in, f[n], n + 1) /\ g[n] = f[n]
        BY <3>3
      <4> HIDE DEF g
      <4> QED
        BY <3>3, <4>1, Zenon
    <3> QED
      BY <3>1, <3>2, <3>3
  <2>3. g = [k \in 0 .. n + 1 |-> g[k]]
    OBVIOUS
  <2>4. Upto(g, n + 1)
    <3> HIDE DEF g
    <3> QED
      BY <2>2, <2>3, Zenon
  <2> HIDE DEF Upto
  <2> QED
    BY <2>4
<1>4. Len(in) \in T
  <2>1. Nat \subseteq T
    <3> HIDE DEF T
    <3> QED
      BY <1>2, <1>3, Induction, Zenon
  <2> QED
    BY <2>1
<1> DEFINE R == CHOOSE f : Upto(f, Len(in))
<1>5. Upto(R, Len(in))
  BY <1>4, Zenon
<1>6. Readings(in) = R
  BY Zenon DEF Readings, Level
<1> HIDE DEF R
<1>7. d \in 0 .. Len(in) /\ d # 0
  OBVIOUS
<1>8. R[d] = Level(in, R[d - 1], d)
  BY <1>5, <1>7, Zenon
<1>9. R[d][at][ty] = ReadValue(in, R[d - 1], at, ty)
  <2>1. Level(in, R[d - 1], d)[at][ty] = ReadValue(in, R[d - 1], at, ty)
    BY <1>7 DEF Level
  <2> QED
    BY <1>8, <2>1, Zenon
<1> QED
  BY <1>6, <1>9, Zenon

LEMMA FieldsRead ==
    ASSUME NEW in, NEW inner, NEW at, NEW fields, Len(fields) \in Nat, NEW K,
           K[0] = Reached(at, <<>>, <<>>),
           \A j \in 1 .. Len(fields) : K[j] = ReadField(in, inner, K[j - 1], fields[j])
    PROVE  ReadFields(in, inner, at, fields) = K[Len(fields)]
<1> DEFINE n == Len(fields)
           After(f) == f = [j \in 0 .. n |->
                              IF j = 0 THEN Reached(at, <<>>, <<>>)
                              ELSE LET r == f[j - 1] IN ReadField(in, inner, r, fields[j])]
           k == [j \in 0 .. n |-> K[j]]
<1>1. ASSUME NEW j \in 0 .. n
      PROVE  k[j] = IF j = 0 THEN Reached(at, <<>>, <<>>) ELSE ReadField(in, inner, k[j - 1], fields[j])
  <2>1. k[j] = K[j]
    OBVIOUS
  <2>2. j # 0 => j \in 1 .. n /\ k[j - 1] = K[j - 1]
    OBVIOUS
  <2> HIDE DEF k
  <2> QED
    BY <2>1, <2>2, Zenon
<1>2. After(k)
  <2>1. k = [j \in 0 .. n |-> k[j]]
    OBVIOUS
  <2> HIDE DEF k
  <2> QED
    BY <1>1, <2>1, Zenon
<1> DEFINE after == CHOOSE f : After(f)
<1>3. After(after)
  <2> HIDE DEF k
  <2> QED
    BY <1>2, Zenon
<1>4. ReadFields(in, inner, at, fields) = after[n]
  BY Zenon DEF ReadFields
<1> HIDE DEF after
<1> DEFINE T == {j \in Nat : j <= n => after[j] = K[j]}
<1>5. \A j \in 0 .. n : after[j] = IF j = 0 THEN Reached(at, <<>>, <<>>)
                                   ELSE ReadField(in, inner, after[j - 1], fields[j])
  BY <1>3, Zenon
<1>6. 0 \in T
  BY <1>5
<1>7. ASSUME NEW j \in Nat, j \in T PROVE j + 1 \in T
  <2>1. SUFFICES ASSUME j + 1 <= n PROVE after[j + 1] = K[j + 1]
    OBVIOUS
  <2>2. j + 1 \in 0 .. n /\ j + 1 \in 1 .. n /\ j + 1 # 0 /\ (j + 1) - 1 = j /\ j <= n
    BY <2>1
  <2>3. after[j] = K[j]
    BY <1>7, <2>2
  <2> QED
    BY <1>5, <2>2, <2>3, Zenon
<1>8. Nat \subseteq T
  <2> HIDE DEF T
  <2> QED
    BY <1>6, <1>7, Induction, Zenon
<1>9. after[n] = K[n]
  BY <1>8
<1> QED
  BY <1>4, <1>9

-----------------------------------------------------------------------------
(* What an object is written as, field by field.                           *)
FieldIs(o, j) == FieldOut(Serialize, Schema[o.id], o.values, j)
ValueOf(o, j) == Value(Schema[o.id], o.values, j)

LEMMA SchemaFields ==
    ASSUME NEW id \in DOMAIN Schema
    PROVE  /\ Schema[id] \in Fields /\ Len(Schema[id]) \in Nat
           /\ DOMAIN Schema[id] = 1 .. Len(Schema[id])
           /\ \A j \in 1 .. Len(Schema[id]) :
                 /\ Schema[id][j] \in [ty : STRING, flags : Nat, bit : Nat]
                 /\ IsFlagsWord(Schema[id][j]) => Schema[id][j].flags = WordsBefore(Schema[id], j)
                 /\ IsConditional(Schema[id][j]) => Schema[id][j].flags < WordsBefore(Schema[id], j)
                 /\ Schema[id][j].ty = "true" => IsConditional(Schema[id][j])
                 /\ Schema[id][j].ty # "false"
<1>1. Schema[id] \in Fields
  BY SchemaAssumption, Zenon DEF Fields
<1>2. /\ Len(Schema[id]) \in Nat /\ DOMAIN Schema[id] = 1 .. Len(Schema[id])
      /\ \A j \in 1 .. Len(Schema[id]) : Schema[id][j] \in [ty : STRING, flags : Nat, bit : Nat]
  <2> DEFINE S == [ty : STRING, flags : Nat, bit : Nat]
  <2>1. Schema[id] \in Seq(S)
    BY <1>1, Zenon DEF Fields
  <2> HIDE DEF S
  <2>2. /\ Len(Schema[id]) \in Nat /\ DOMAIN Schema[id] = 1 .. Len(Schema[id])
        /\ \A j \in 1 .. Len(Schema[id]) : Schema[id][j] \in S
    BY <2>1
  <2> QED
    BY <2>2, Zenon DEF S
<1> QED
  BY <1>1, <1>2, SchemaAssumption, Zenon

LEMMA OutputIs ==
    ASSUME NEW o \in Objects
    PROVE  /\ Serialize[o].ok <=>
                 /\ o.id \in DOMAIN Schema
                 /\ Len(o.values) <= NumberOf(Schema[o.id], Len(Schema[o.id]))
                 /\ \A j \in DOMAIN Schema[o.id] : FieldIs(o, j).ok
           /\ Serialize[o].ok =>
                 Serialize[o].out = <<Tok("id", o.id)>>
                    \o FlattenSeq([j \in DOMAIN Schema[o.id] |-> FieldIs(o, j).out])
<1> DEFINE fields == Schema[o.id]
           parts == [j \in DOMAIN fields |-> FieldIs(o, j)]
           outs == [k \in DOMAIN parts |-> parts[k].out]
<1>1. Serialize[o] = ObjectOut(Serialize, o)
  BY SerializeIs
<1>2. parts = [j \in DOMAIN fields |-> FieldOut(Serialize, fields, o.values, j)]
  BY DEF FieldIs
<1>3. outs = [j \in DOMAIN fields |-> FieldIs(o, j).out]
  OBVIOUS
<1>4. /\ DOMAIN parts = DOMAIN fields
      /\ \A j \in DOMAIN fields : parts[j] = FieldIs(o, j)
  OBVIOUS
<1>5. /\ Joined(o.id, parts).ok <=> \A k \in DOMAIN parts : parts[k].ok
      /\ Joined(o.id, parts).ok => Joined(o.id, parts).out = <<Tok("id", o.id)>> \o FlattenSeq(outs)
  <2> HIDE DEF parts
  <2>1. CASE \A k \in DOMAIN parts : parts[k].ok
    <3>1. {k \in DOMAIN parts : ~parts[k].ok} = {}
      BY <2>1
    <3>2. Joined(o.id, parts) = Written(<<Tok("id", o.id)>> \o FlattenSeq(outs))
      BY <3>1, Zenon DEF Joined
    <3> HIDE DEF outs
    <3> QED
      BY <2>1, <3>2 DEF Written
  <2>2. CASE ~ \A k \in DOMAIN parts : parts[k].ok
    <3>1. {k \in DOMAIN parts : ~parts[k].ok} # {}
      BY <2>2
    <3>2. \E out : Joined(o.id, parts) = Refused(out)
      BY <3>1, Zenon DEF Joined
    <3> HIDE DEF outs
    <3> QED
      BY <2>2, <3>2 DEF Refused
  <2> QED
    BY <2>1, <2>2
<1>6. CASE o.id \notin DOMAIN Schema \/ Len(o.values) > Count(fields)
  <2>1. ObjectOut(Serialize, o) = Refused(<<>>)
    BY <1>6, Zenon DEF ObjectOut
  <2>2. ~Serialize[o].ok
    BY <1>1, <2>1 DEF Refused
  <2>3. CASE o.id \notin DOMAIN Schema
    BY <2>2, <2>3
  <2>4. CASE o.id \in DOMAIN Schema
    <3>1. Len(o.values) > NumberOf(fields, Len(fields))
      BY <1>6, <2>4 DEF Count
    <3>2. NumberOf(fields, Len(fields)) \in Nat
      BY <2>4, SchemaFields, Numbering, Zenon
    <3>3. Len(o.values) \in Nat
      BY ObjectsAssumption
    <3> QED
      BY <2>2, <3>1, <3>2, <3>3
  <2> QED
    BY <2>3, <2>4
<1>7. CASE o.id \in DOMAIN Schema /\ ~ (Len(o.values) > Count(fields))
  <2>1. ObjectOut(Serialize, o) = Joined(o.id, parts)
    BY <1>2, <1>7, Zenon DEF ObjectOut
  <2>2. NumberOf(fields, Len(fields)) \in Nat
    BY <1>7, SchemaFields, Numbering, Zenon
  <2>3. Len(o.values) \in Nat
    BY ObjectsAssumption
  <2>4. Len(o.values) <= NumberOf(fields, Len(fields))
    BY <1>7, <2>2, <2>3 DEF Count
  <2> HIDE DEF parts, outs
  <2>5. Serialize[o].ok <=> \A j \in DOMAIN fields : FieldIs(o, j).ok
    BY <1>1, <1>4, <1>5, <2>1
  <2>6. Serialize[o].ok => Serialize[o].out = <<Tok("id", o.id)>> \o FlattenSeq(outs)
    BY <1>1, <1>5, <2>1
  <2> QED
    BY <1>3, <1>7, <2>4, <2>5, <2>6, Zenon
<1> QED
  BY <1>6, <1>7

(* Values fit the fields they are given for.                               *)
LEMMA FieldFits ==
    ASSUME NEW o \in Objects, o.id \in DOMAIN Schema, NEW j \in 1 .. Len(Schema[o.id]),
           ~IsFlagsWord(Schema[o.id][j])
    PROVE  /\ FitsField(Schema[o.id][j], ValueOf(o, j))
           /\ ValueOf(o, j) # Skip =>
                /\ NumberOf(Schema[o.id], j) \in DOMAIN o.values
                /\ ValueOf(o, j) = o.values[NumberOf(Schema[o.id], j)]
<1> DEFINE fields == Schema[o.id]
           n == NumberOf(fields, j)
<1>1. fields \in Fields
  BY SchemaFields
<1>2. n \in 1 .. NumberOf(fields, Len(fields)) /\ FieldNumbered(fields, n) = j
  BY <1>1, Numbering, Zenon
<1>3. ValueOf(o, j) # Skip => n \in DOMAIN o.values /\ ValueOf(o, j) = o.values[n]
  BY ValueIs DEF ValueOf
<1>4. CASE ValueOf(o, j) = Skip
  BY <1>4 DEF FitsField
<1>5. CASE ValueOf(o, j) # Skip
  <2>1. n <= NumberOf(fields, Len(fields))
    <3>1. NumberOf(fields, Len(fields)) \in Nat
      BY <1>1, SchemaFields, Numbering, Zenon
    <3> QED
      BY <1>2, <3>1
  <2>2. FitsField(fields[FieldNumbered(fields, n)], o.values[n])
    BY <1>3, <1>5, <2>1, ObjectsAssumption, Zenon
  <2> QED
    BY <1>2, <1>3, <1>5, <2>2, Zenon
<1> QED
  BY <1>3, <1>4, <1>5

LEMMA FittingIsWritten ==
    ASSUME NEW ty, NEW value, FitsType(ty, value), NEW boxed
    PROVE  /\ value # Skip
           /\ value.kind = "Boxed" => WriteValue(boxed, ty, value) = boxed[value.object]
           /\ value.kind # "Boxed" => WriteValue(boxed, ty, value).ok
<1>1. value # Skip
  BY DEF FitsType, Skip, IsListOf
<1>2. CASE value.kind = "Boxed"
  <2>1. WriteValue(boxed, ty, value) = boxed[value.object]
    BY <1>2 DEF WriteValue, IsListOf
  <2> QED
    BY <1>1, <1>2, <2>1
<1>3. CASE value.kind # "Boxed"
  <2>1. CASE value.kind = "I32" \/ value.kind \in {"I64", "Str", "Bytes"}
    <3>1. \/ WriteValue(boxed, ty, value) = Written(BoolOut(value.v))
          \/ WriteValue(boxed, ty, value) = Written(<<ScalarOut(ty, value)>>)
      <4>1. ~IsListOf(ty, value.kind)
        BY <2>1 DEF IsListOf
      <4> QED
        BY <2>1, <4>1 DEF WriteValue
    <3> QED
      BY <1>1, <1>3, <3>1 DEF Written
  <2>2. CASE value.kind = "Peer" /\ ty = "InputPeer"
    <3>1. WriteValue(boxed, ty, value) = Written(PeerOut(value))
      BY <2>2 DEF WriteValue, IsListOf
    <3> QED
      BY <1>1, <1>3, <3>1 DEF Written
  <2>3. CASE IsListOf(ty, value.kind)
    <3>1. value.kind \in {"Ints", "Longs", "MessageIds", "UserIds"}
      BY <2>3 DEF IsListOf
    <3>2. WriteValue(boxed, ty, value) = Written(ListOut(value))
      BY <2>3, <3>1 DEF WriteValue
    <3> QED
      BY <1>1, <1>3, <3>2 DEF Written
  <2>4. CASE value.kind = "ReplyTo" /\ ty = "InputReplyTo"
    <3>1. WriteValue(boxed, ty, value) = Written(ReplyOut(value.v))
      BY <2>4 DEF WriteValue, IsListOf
    <3> QED
      BY <1>1, <1>3, <3>1 DEF Written
  <2>5. CASE value.kind = "Empty"
    <3>1. WriteValue(boxed, ty, value) = Written(<<Tok("id", value.id)>>)
      BY <2>5 DEF WriteValue, IsListOf
    <3> QED
      BY <1>1, <1>3, <3>1 DEF Written
  <2> QED
    BY <1>3, <2>1, <2>2, <2>3, <2>4, <2>5, Zenon DEF FitsType
<1> QED
  BY <1>1, <1>2, <1>3

LEMMA SkipIsRefused ==
    ASSUME NEW ty, NEW boxed
    PROVE  ~WriteValue(boxed, ty, Skip).ok
  BY DEF WriteValue, Skip, IsListOf, Refused

FieldOk(o, j) ==
    LET field == Schema[o.id][j]
    IN  IsFlagsWord(field) \/ IsBare(field) \/ (IsConditional(field) /\ ValueOf(o, j) = Skip)

(* What each of an object's fields is written as.                          *)
LEMMA FieldCases ==
    ASSUME NEW o \in Objects, o.id \in DOMAIN Schema, NEW j \in 1 .. Len(Schema[o.id])
    PROVE  LET field == Schema[o.id][j]
           IN  /\ IsFlagsWord(field) =>
                     FieldIs(o, j) = Written(<<Tok("flags", Flags(Schema[o.id], o.values, field.flags))>>)
               /\ ~IsFlagsWord(field) /\ FieldOk(o, j) => FieldIs(o, j) = Written(<<>>)
               /\ ~FieldOk(o, j) => FieldIs(o, j) = WriteValue(Serialize, field.ty, ValueOf(o, j))
               /\ IsBare(field) <=> field.ty = "true"
               /\ ~FieldOk(o, j) /\ ValueOf(o, j) # Skip => FitsType(field.ty, ValueOf(o, j))
<1> DEFINE field == Schema[o.id][j]
           value == ValueOf(o, j)
<1>1. /\ IsFlagsWord(field) =>
            FieldIs(o, j) = Written(<<Tok("flags", Flags(Schema[o.id], o.values, field.flags))>>)
      /\ ~IsFlagsWord(field) /\ FieldOk(o, j) => FieldIs(o, j) = Written(<<>>)
      /\ ~FieldOk(o, j) => FieldIs(o, j) = WriteValue(Serialize, field.ty, value)
  BY Zenon DEF FieldIs, FieldOut, FieldOk, ValueOf
<1>2. IsBare(field) <=> field.ty = "true"
  BY SchemaFields DEF IsBare, IsConditional
<1>3. ASSUME ~FieldOk(o, j), value # Skip PROVE FitsType(field.ty, value)
  <2>1. FitsField(field, value)
    BY <1>3, FieldFits DEF FieldOk
  <2>2. field.ty # "true"
    BY <1>2, <1>3, Zenon DEF FieldOk
  <2> QED
    BY <1>3, <2>1, <2>2, Zenon DEF FitsField
<1> QED
  BY <1>1, <1>2, <1>3, Zenon

LEMMA WrittenWhenGiven ==
    ASSUME NEW o \in Objects
    PROVE  Serialize[o].ok <=>
             /\ o.id \in DOMAIN Schema
             /\ Complete(o)
             /\ Len(o.values) <= NumberOf(Schema[o.id], Len(Schema[o.id]))
             /\ \A n \in DOMAIN o.values :
                   o.values[n].kind = "Boxed" => Serialize[o.values[n].object].ok
<1> DEFINE fields == Schema[o.id]
<1>1. SUFFICES ASSUME o.id \in DOMAIN Schema, Len(o.values) <= NumberOf(fields, Len(fields))
               PROVE  (\A j \in DOMAIN fields : FieldIs(o, j).ok)
                        <=> /\ Complete(o)
                            /\ \A n \in DOMAIN o.values :
                                  o.values[n].kind = "Boxed" => Serialize[o.values[n].object].ok
  BY OutputIs
<1>2. /\ fields \in Fields /\ Len(fields) \in Nat /\ DOMAIN fields = 1 .. Len(fields)
      /\ DOMAIN o.values = 1 .. Len(o.values) /\ Len(o.values) \in Nat
      /\ NumberOf(fields, Len(fields)) \in Nat
  <2>1. fields \in Fields /\ Len(fields) \in Nat /\ DOMAIN fields = 1 .. Len(fields)
    BY <1>1, SchemaFields
  <2>2. o.values \in Seq({o.values[n] : n \in DOMAIN o.values})
    BY ObjectsAssumption, Zenon
  <2>3. DOMAIN o.values = 1 .. Len(o.values) /\ Len(o.values) \in Nat
    BY <2>2
  <2>4. NumberOf(fields, Len(fields)) \in Nat
    BY <2>1, Numbering, Zenon
  <2> QED
    BY <2>1, <2>3, <2>4
<1>3. ASSUME \A j \in DOMAIN fields : FieldIs(o, j).ok
      PROVE  Complete(o)
  <2>1. SUFFICES ASSUME NEW j \in DOMAIN fields, ~IsFlagsWord(fields[j]), fields[j].flags = NoFlags
                 PROVE  LET n == NumberOf(fields, j)
                        IN  n \in DOMAIN o.values /\ o.values[n] # Skip
    BY Zenon DEF Complete
  <2>2. ~FieldOk(o, j)
    BY <2>1, Zenon DEF FieldOk, IsBare, IsConditional
  <2>3. FieldIs(o, j) = WriteValue(Serialize, fields[j].ty, ValueOf(o, j))
    BY <1>1, <1>2, <2>2, FieldCases
  <2>4. ValueOf(o, j) # Skip
    BY <1>3, <2>3, SkipIsRefused
  <2> QED
    BY <1>1, <1>2, <2>1, <2>4, FieldFits
<1>4. ASSUME \A j \in DOMAIN fields : FieldIs(o, j).ok,
             NEW n \in DOMAIN o.values, o.values[n].kind = "Boxed"
      PROVE  Serialize[o.values[n].object].ok
  <2>1. n \in 1 .. NumberOf(fields, Len(fields))
    BY <1>1, <1>2
  <2>2. PICK j \in 1 .. Len(fields) : ~IsFlagsWord(fields[j]) /\ NumberOf(fields, j) = n
    BY <1>2, <2>1, Numbering, Zenon
  <2>3. ValueOf(o, j) = o.values[n]
    BY <2>2, Zenon DEF ValueOf, Value
  <2>4. ValueOf(o, j) # Skip /\ ValueOf(o, j) # True /\ ValueOf(o, j) # False
    BY <1>4, <2>3 DEF Skip, True, False
  <2>5. FitsField(fields[j], ValueOf(o, j))
    BY <1>1, <2>2, FieldFits
  <2>6. fields[j].ty # "true"
    BY <2>4, <2>5 DEF FitsField
  <2>7. ~FieldOk(o, j)
    BY <1>1, <2>2, <2>4, <2>6, FieldCases DEF FieldOk
  <2>8. /\ FieldIs(o, j) = WriteValue(Serialize, fields[j].ty, ValueOf(o, j))
        /\ FitsType(fields[j].ty, ValueOf(o, j))
    BY <1>1, <2>4, <2>7, FieldCases
  <2>9. FieldIs(o, j) = Serialize[o.values[n].object]
    BY <1>4, <2>3, <2>8, FittingIsWritten
  <2> QED
    BY <1>2, <1>4, <2>9
<1>5. ASSUME Complete(o),
             \A n \in DOMAIN o.values :
               o.values[n].kind = "Boxed" => Serialize[o.values[n].object].ok,
             NEW j \in DOMAIN fields
      PROVE  FieldIs(o, j).ok
  <2>1. CASE FieldOk(o, j)
    <3>1. \E out : FieldIs(o, j) = Written(out)
      BY <1>1, <1>2, <2>1, FieldCases, Zenon
    <3> QED
      BY <3>1 DEF Written
  <2>2. CASE ~FieldOk(o, j)
    <3>1. ~IsFlagsWord(fields[j])
      BY <2>2 DEF FieldOk
    <3>2. ValueOf(o, j) # Skip
      <4>1. CASE fields[j].flags = NoFlags
        BY <1>5, <3>1, <4>1, Zenon DEF Complete, ValueOf, Value
      <4>2. CASE fields[j].flags # NoFlags
        BY <2>2, <3>1, <4>2, Zenon DEF FieldOk, IsConditional, IsFlagsWord
      <4> QED
        BY <4>1, <4>2
    <3>3. /\ NumberOf(fields, j) \in DOMAIN o.values
          /\ ValueOf(o, j) = o.values[NumberOf(fields, j)]
      BY <1>1, <1>2, <3>1, <3>2, FieldFits
    <3>4. /\ FieldIs(o, j) = WriteValue(Serialize, fields[j].ty, ValueOf(o, j))
          /\ FitsType(fields[j].ty, ValueOf(o, j))
      BY <1>1, <1>2, <2>2, <3>2, FieldCases
    <3>5. CASE ValueOf(o, j).kind = "Boxed"
      <4>1. FieldIs(o, j) = Serialize[ValueOf(o, j).object]
        BY <3>4, <3>5, FittingIsWritten
      <4> QED
        BY <1>5, <3>3, <3>5, <4>1
    <3>6. CASE ValueOf(o, j).kind # "Boxed"
      BY <3>4, <3>6, FittingIsWritten
    <3> QED
      BY <3>5, <3>6
  <2> QED
    BY <2>1, <2>2
<1> QED
  BY <1>3, <1>4, <1>5

(* One call, once made, is done.                                           *)
SerializerIInv ==
    /\ request \in Objects
    /\ written # <<>> => written = <<Serialize[request]>>

LEMMA SerializerInvariant == SerializerSpec => []SerializerIInv
<1>1. SerializerInit => SerializerIInv
  BY ObjectsAssumption DEF SerializerInit, SerializerIInv
<1>2. SerializerIInv /\ [SerializeRequest]_serializerVars => SerializerIInv'
  BY DEF SerializerIInv, SerializeRequest, serializerVars
<1> QED
  BY <1>1, <1>2, PTL DEF SerializerSpec

(* serialize writes a request exactly if its constructor is linked, every  *)
(* field that is always there has a value, none is left over, and the      *)
(* objects among the values are written: a request that fits is never      *)
(* refused, and one that does not is never sent.                           *)
THEOREM AlwaysGivenIsWritten == SerializerSpec => []GivenIsWritten
<1>1. SerializerIInv => GivenIsWritten
  <2>1. SUFFICES ASSUME SerializerIInv, written # <<>> PROVE GivenIsWritten
    BY DEF GivenIsWritten
  <2>2. request \in Objects /\ written[1] = Serialize[request]
    BY <2>1 DEF SerializerIInv
  <2> QED
    BY <2>1, <2>2, WrittenWhenGiven DEF GivenIsWritten
<1> QED
  BY <1>1, SerializerInvariant, PTL

-----------------------------------------------------------------------------
(* The reader, one field after the other.                                  *)
LEMMA TakesWord ==
    ASSUME NEW in, NEW inner, NEW at, NEW words, NEW fields, NEW field, NEW word, NEW end,
           field.ty = "#", at <= Len(in), in[at] = Tok("flags", word), end = at + 1
    PROVE  ReadField(in, inner, Reached(at, words, fields), field)
             = Reached(end, Append(words, word), fields)
<1>1. in[at].t = "flags" /\ in[at].v = word
  BY DEF Tok
<1> QED
  BY <1>1 DEF ReadField, Reached, IsFlagsWord

LEMMA LeavesOut ==
    ASSUME NEW in, NEW inner, NEW at, NEW words, NEW fields, NEW field,
           field.ty # "#", field.flags # NoFlags, field.bit \notin words[field.flags + 1]
    PROVE  ReadField(in, inner, Reached(at, words, fields), field)
             = Reached(at, words, Append(fields, Absent))
  BY DEF ReadField, Reached, IsFlagsWord, IsThere

LEMMA TakesBit ==
    ASSUME NEW in, NEW inner, NEW at, NEW words, NEW fields, NEW field,
           field.ty = "true", field.bit \in words[field.flags + 1]
    PROVE  ReadField(in, inner, Reached(at, words, fields), field)
             = Reached(at, words, Append(fields, Present))
  BY DEF ReadField, Reached, IsFlagsWord, IsThere

LEMMA TakesValue ==
    ASSUME NEW in, NEW inner, NEW at, NEW words, NEW fields, NEW field, NEW value, NEW end,
           field.ty # "#", field.ty # "true", at <= Len(in),
           field.flags = NoFlags \/ field.bit \in words[field.flags + 1],
           inner[at][field.ty] = Found(value, end)
    PROVE  ReadField(in, inner, Reached(at, words, fields), field)
             = Reached(end, words, Append(fields, value))
<1>1. Found(value, end).ok /\ Found(value, end).at = end /\ Found(value, end).value = value
  BY DEF Found
<1> QED
  BY <1>1 DEF ReadField, Reached, IsFlagsWord, IsThere

LEMMA OneMore ==
    ASSUME NEW m, NEW j \in Nat
    PROVE  Append([i \in 1 .. j |-> m[i]], m[j + 1]) = [i \in 1 .. j + 1 |-> m[i]]
<1> DEFINE S == {m[i] : i \in 1 .. j + 1}
           s == [i \in 1 .. j |-> m[i]]
           t == [i \in 1 .. j + 1 |-> m[i]]
<1>1. s \in Seq(S) /\ t \in Seq(S) /\ m[j + 1] \in S /\ Len(s) = j /\ Len(t) = j + 1
  OBVIOUS
<1>2. /\ \A i \in 1 .. j : s[i] = m[i]
      /\ \A i \in 1 .. j + 1 : t[i] = m[i]
  OBVIOUS
<1> HIDE DEF S, s, t
<1>3. /\ Append(s, m[j + 1]) \in Seq(S)
      /\ Len(Append(s, m[j + 1])) = Len(s) + 1
      /\ \A i \in 1 .. Len(s) : Append(s, m[j + 1])[i] = s[i]
      /\ Append(s, m[j + 1])[Len(s) + 1] = m[j + 1]
  BY <1>1, AppendProperties
<1>4. ASSUME NEW i \in 1 .. j + 1 PROVE Append(s, m[j + 1])[i] = t[i]
  <2>1. CASE i = j + 1
    BY <1>1, <1>2, <1>3, <2>1
  <2>2. CASE i # j + 1
    <3>1. i \in 1 .. j
      BY <2>2
    <3> QED
      BY <1>1, <1>2, <1>3, <3>1
  <2> QED
    BY <2>1, <2>2
<1>5. Append(s, m[j + 1]) = t
  BY <1>1, <1>3, <1>4, SeqEqual
<1> QED
  BY <1>5 DEF s, t

(* `out` is how a value that means m is written for a type.                *)
Encodes(out, ty, m) ==
    /\ IsSeq(out) /\ Len(out) >= 1
    /\ \A in, at, d :
          Stands(in, at, out) /\ d \in 0 .. Len(in) /\ d + at > Len(in) =>
            Readings(in)[d][at][ty] = Found(m, at + Len(out))

(* Where something stands, the reader's level below is at its disposal.    *)
LEMMA ReadsThere ==
    ASSUME NEW in, NEW at, NEW d \in 0 .. Len(in), Len(in) \in Nat, at \in 1 .. Len(in),
           d + at > Len(in), NEW ty \in Types
    PROVE  /\ Readings(in)[d][at][ty] = ReadValue(in, Readings(in)[d - 1], at, ty)
           /\ d - 1 \in 0 .. Len(in) /\ (d - 1) + (at + 1) > Len(in)
<1>1. d \in 1 .. Len(in)
  OBVIOUS
<1> QED
  BY <1>1, ReadingsAre

LEMMA WholeSeq ==
    ASSUME NEW s, IsSeq(s)
    PROVE  [i \in 1 .. Len(s) |-> s[i]] = s
<1>1. PICK S : s \in Seq(S)
  BY DEF IsSeq
<1> QED
  BY <1>1

(* Fields that are always there, in so many parts, and what they mean.     *)
PlainParts(fields, outs, m) ==
    /\ Len(fields) \in Nat
    /\ IsSeq(outs) /\ Len(outs) = Len(fields)
    /\ IsSeq(m) /\ Len(m) = Len(fields)
    /\ \A j \in 1 .. Len(fields) :
          /\ fields[j].flags = NoFlags /\ fields[j].ty # "#" /\ fields[j].ty # "true"
          /\ Encodes(outs[j], fields[j].ty, m[j])

LEMMA PartsAreSeqs ==
    ASSUME NEW fields, NEW outs, NEW m, PlainParts(fields, outs, m)
    PROVE  /\ \A k \in 1 .. Len(outs) : IsSeq(outs[k]) /\ Len(outs[k]) >= 1
           /\ IsSeq(FlattenSeq(outs))
<1>1. \A k \in 1 .. Len(outs) : IsSeq(outs[k]) /\ Len(outs[k]) >= 1
  BY DEF Encodes, PlainParts
<1>2. IsSeq(outs)
  BY DEF PlainParts
<1> QED
  BY <1>1, <1>2, PartsStand

LEMMA PlainFieldsRead ==
    ASSUME NEW fields, NEW outs, NEW m, PlainParts(fields, outs, m),
           NEW in, NEW at, Stands(in, at, FlattenSeq(outs)),
           NEW d, d \in 0 .. Len(in), d + at > Len(in)
    PROVE  ReadFields(in, Readings(in)[d], at, fields)
             = Reached(at + Len(FlattenSeq(outs)), <<>>, m)
<1> DEFINE n == Len(fields)
           K == [j \in 0 .. n |-> Reached(at + PartsLength(outs, j), <<>>, [i \in 1 .. j |-> m[i]])]
<1>0. /\ n \in Nat /\ IsSeq(outs) /\ Len(outs) = n /\ IsSeq(m) /\ Len(m) = n
      /\ \A j \in 1 .. n : fields[j].flags = NoFlags /\ fields[j].ty # "#" /\ fields[j].ty # "true"
  BY DEF PlainParts
<1>1. \A k \in 1 .. n : IsSeq(outs[k]) /\ Len(outs[k]) >= 1
  BY <1>0, PartsAreSeqs
<1>2. /\ PartsLength(outs, 0) = 0 /\ PartsLength(outs, n) = Len(FlattenSeq(outs))
      /\ \A k \in 0 .. n : PartsLength(outs, k) \in Nat
      /\ \A k \in 1 .. n : /\ Len(outs[k]) \in Nat
                           /\ PartsLength(outs, k) = PartsLength(outs, k - 1) + Len(outs[k])
                           /\ Stands(in, at + PartsLength(outs, k - 1), outs[k])
  <2>1. /\ PartsLength(outs, 0) = 0 /\ PartsLength(outs, Len(outs)) = Len(FlattenSeq(outs))
        /\ \A k \in 0 .. Len(outs) : PartsLength(outs, k) \in Nat
        /\ \A k \in 1 .. Len(outs) :
              /\ Len(outs[k]) \in Nat
              /\ PartsLength(outs, k) = PartsLength(outs, k - 1) + Len(outs[k])
              /\ Stands(in, at + PartsLength(outs, k - 1), outs[k])
    BY <1>0, <1>1, PartsStand
  <2> QED
    BY <1>0, <2>1
<1>3. at \in Nat \ {0} /\ Len(in) \in Nat
  BY DEF Stands
<1>4. K[0] = Reached(at, <<>>, <<>>)
  <2>1. [i \in 1 .. 0 |-> m[i]] = <<>> /\ at + 0 = at
    BY <1>3
  <2>2. K[0] = Reached(at + PartsLength(outs, 0), <<>>, [i \in 1 .. 0 |-> m[i]])
    BY <1>0
  <2> HIDE DEF K
  <2> QED
    BY <1>2, <2>1, <2>2, Zenon
<1>5. ASSUME NEW j \in 1 .. n
      PROVE  K[j] = ReadField(in, Readings(in)[d], K[j - 1], fields[j])
  <2> DEFINE p == at + PartsLength(outs, j - 1)
  <2>1. j - 1 \in Nat /\ j - 1 \in 0 .. n /\ (j - 1) + 1 = j /\ j \in 0 .. n
    OBVIOUS
  <2>2. /\ Stands(in, p, outs[j]) /\ Len(outs[j]) >= 1 /\ Len(outs[j]) \in Nat
        /\ p + Len(outs[j]) = at + PartsLength(outs, j) /\ p \in Nat /\ p >= at
    <3>1. Stands(in, p, outs[j]) /\ Len(outs[j]) >= 1 /\ Len(outs[j]) \in Nat
      BY <1>1, <1>2
    <3>2. /\ PartsLength(outs, j - 1) \in Nat
          /\ PartsLength(outs, j) = PartsLength(outs, j - 1) + Len(outs[j])
      BY <1>2, <2>1, Zenon
    <3> QED
      BY <1>3, <3>1, <3>2
  <2>3. p <= Len(in)
    BY <1>3, <2>2 DEF Stands
  <2>4. Readings(in)[d][p][fields[j].ty] = Found(m[j], at + PartsLength(outs, j))
    <3>1. d + p > Len(in)
      BY <1>3, <2>2
    <3>2. Encodes(outs[j], fields[j].ty, m[j])
      BY DEF PlainParts
    <3>3. p + Len(outs[j]) = at + PartsLength(outs, j) /\ Stands(in, p, outs[j])
      BY <2>2
    <3> HIDE DEF p
    <3> QED
      BY <3>1, <3>2, <3>3, Zenon DEF Encodes
  <2>5. /\ K[j] = Reached(at + PartsLength(outs, j), <<>>, [i \in 1 .. j |-> m[i]])
        /\ K[j - 1] = Reached(p, <<>>, [i \in 1 .. j - 1 |-> m[i]])
    BY <1>0, <2>1
  <2>6. Append([i \in 1 .. j - 1 |-> m[i]], m[j]) = [i \in 1 .. j |-> m[i]]
    BY <2>1, OneMore, Zenon
  <2> HIDE DEF K, p
  <2>7. fields[j].flags = NoFlags /\ fields[j].ty # "#" /\ fields[j].ty # "true"
    BY <1>0
  <2>8. ReadField(in, Readings(in)[d], Reached(p, <<>>, [i \in 1 .. j - 1 |-> m[i]]), fields[j])
          = Reached(at + PartsLength(outs, j), <<>>, Append([i \in 1 .. j - 1 |-> m[i]], m[j]))
    BY <2>3, <2>4, <2>7, TakesValue
  <2> QED
    BY <2>5, <2>6, <2>8, Zenon
<1>6. ReadFields(in, Readings(in)[d], at, fields) = K[n]
  <2> HIDE DEF K
  <2> QED
    <3>1. \A j \in 1 .. Len(fields) : K[j] = ReadField(in, Readings(in)[d], K[j - 1], fields[j])
      BY <1>5
    <3> QED
      BY <1>0, <1>4, <3>1, FieldsRead
<1>7. K[n] = Reached(at + PartsLength(outs, n), <<>>, [i \in 1 .. n |-> m[i]])
  BY <1>0
<1> HIDE DEF K
<1>8. [i \in 1 .. n |-> m[i]] = m
  BY <1>0, WholeSeq
<1> QED
  BY <1>2, <1>6, <1>7, <1>8, Zenon

LEMMA SchemaTypes ==
    /\ \A id \in DOMAIN Schema : \A j \in DOMAIN Schema[id] : Schema[id][j].ty \in Types
    /\ \A ty \in DOMAIN ElementOf : ElementOf[ty] \in Types
    /\ "Object" \in Types
  BY DEF Types

LEMMA SingleSeq ==
    ASSUME NEW e
    PROVE  IsSeq(<<e>>) /\ Len(<<e>>) = 1 /\ <<e>>[1] = e /\ IsSeq(<<>>) /\ Len(<<>>) = 0
<1>1. <<e>> \in Seq({e}) /\ <<>> \in Seq({e})
  OBVIOUS
<1> QED
  BY <1>1 DEF IsSeq

LEMMA ScalarEncodes ==
    ASSUME NEW ty \in Types, IsScalar(ty), NEW v
    PROVE  Encodes(<<Tok(ty, v)>>, ty, Tok(ty, v))
<1> DEFINE out == <<Tok(ty, v)>>
<1>1. IsSeq(out) /\ Len(out) = 1 /\ out[1] = Tok(ty, v)
  BY SingleSeq
<1> HIDE DEF out
<1>2. ASSUME NEW in, NEW at, NEW d, Stands(in, at, out), d \in 0 .. Len(in), d + at > Len(in)
      PROVE  Readings(in)[d][at][ty] = Found(Tok(ty, v), at + Len(out))
  <2>1. at \in 1 .. Len(in) /\ Len(in) \in Nat /\ in[at] = Tok(ty, v)
    <3>1. /\ Len(in) \in Nat /\ at \in Nat \ {0} /\ at + 1 <= Len(in) + 1
          /\ in[at + 1 - 1] = out[1]
      BY <1>1, <1>2 DEF Stands
    <3>2. at + 1 - 1 = at
      BY <3>1
    <3> QED
      BY <1>1, <3>1, <3>2
  <2>2. Readings(in)[d][at][ty] = ReadValue(in, Readings(in)[d - 1], at, ty)
    BY <1>2, <2>1, ReadsThere
  <2>3. in[at].t = ty
    BY <2>1 DEF Tok
  <2>4. ReadValue(in, Readings(in)[d - 1], at, ty) = Found(in[at], at + 1)
    BY <2>3, Zenon DEF ReadValue
  <2> QED
    BY <1>1, <2>1, <2>2, <2>4, Zenon
<1>3. Len(out) >= 1
  BY <1>1
<1> QED
  BY <1>1, <1>2, <1>3, Zenon DEF Encodes, out

LEMMA ObjectIsRead ==
    ASSUME NEW in, NEW at, NEW d \in 0 .. Len(in), Len(in) \in Nat, at \in 1 .. Len(in),
           d + at > Len(in), NEW ty \in Types, IsBoxed(ty),
           NEW id \in DOMAIN Schema, in[at] = Tok("id", id), NEW words, NEW fields, NEW end,
           ReadFields(in, Readings(in)[d - 1], at + 1, Schema[id]) = Reached(end, words, fields)
    PROVE  Readings(in)[d][at][ty] = Found(Node(id, fields), end)
<1>1. Readings(in)[d][at][ty] = ReadValue(in, Readings(in)[d - 1], at, ty)
  BY ReadsThere
<1>2. in[at].t = "id" /\ in[at].v = id
  BY DEF Tok
<1>3. ReadValue(in, Readings(in)[d - 1], at, ty) = ReadObject(in, Readings(in)[d - 1], at)
  BY Zenon DEF ReadValue, IsBoxed
<1>4. ReadObject(in, Readings(in)[d - 1], at)
        = Gathered(id, Reached(end, words, fields))
  BY <1>2, Zenon DEF ReadObject
<1>5. Gathered(id, Reached(end, words, fields)) = Found(Node(id, fields), end)
  BY DEF Gathered, Reached
<1> QED
  BY <1>1, <1>3, <1>4, <1>5, Zenon

(* Objects whose fields are all there, in so many parts.                   *)
LEMMA ObjectEncodes ==
    ASSUME NEW id \in DOMAIN Schema, NEW ty \in Types, IsBoxed(ty),
           NEW outs, NEW m, PlainParts(Schema[id], outs, m)
    PROVE  Encodes(<<Tok("id", id)>> \o FlattenSeq(outs), ty, Node(id, m))
<1> DEFINE rest == FlattenSeq(outs)
           tok == Tok("id", id)
           out == <<tok>> \o rest
<1>1. IsSeq(rest)
  BY PartsAreSeqs
<1>2. IsSeq(out) /\ Len(out) = Len(rest) + 1 /\ Len(rest) \in Nat
  <2> HIDE DEF rest
  <2> QED
    BY <1>1, SingleSeq, Concatenated
<1>3. ASSUME NEW in, NEW at, NEW d, Stands(in, at, out), d \in 0 .. Len(in), d + at > Len(in)
      PROVE  Readings(in)[d][at][ty] = Found(Node(id, m), at + Len(out))
  <2>1. Len(in) \in Nat
    BY <1>3, Zenon DEF Stands
  <2>2. at \in 1 .. Len(in) /\ in[at] = tok /\ Stands(in, at + 1, rest)
    <3> HIDE DEF rest, tok
    <3> QED
      BY <1>1, <1>3, FirstStands
  <2> DEFINE e == d - 1
  <2>3. e \in 0 .. Len(in) /\ e + (at + 1) > Len(in)
    BY <1>3, <2>1, <2>2, ReadsThere
  <2>4. ReadFields(in, Readings(in)[e], at + 1, Schema[id])
          = Reached((at + 1) + Len(rest), <<>>, m)
    <3> HIDE DEF e
    <3> QED
      BY <2>2, <2>3, PlainFieldsRead
  <2> HIDE DEF rest, out
  <2>5. Readings(in)[d][at][ty] = Found(Node(id, m), (at + 1) + Len(rest))
    BY <1>3, <2>1, <2>2, <2>4, ObjectIsRead
  <2>6. (at + 1) + Len(rest) = at + Len(out)
    BY <1>2, <2>2
  <2> QED
    BY <2>5, <2>6, Zenon
<1>4. Len(out) >= 1
  BY <1>2
<1> QED
  BY <1>2, <1>3, <1>4, Zenon DEF Encodes

LEMMA FlattenSingles ==
    ASSUME NEW s, IsSeq(s)
    PROVE  FlattenSeq([i \in DOMAIN s |-> <<s[i]>>]) = s
<1> DEFINE outs == [i \in DOMAIN s |-> <<s[i]>>]
           flat == FlattenSeq(outs)
           n == Len(s)
<1>1. n \in Nat /\ DOMAIN s = 1 .. n
  BY SeqFacts
<1>2. /\ IsSeq(outs) /\ Len(outs) = n
      /\ \A k \in 1 .. n : IsSeq(outs[k]) /\ Len(outs[k]) = 1 /\ outs[k][1] = s[k]
  <2>1. outs \in Seq({<<s[i]>> : i \in 1 .. n}) /\ Len(outs) = n
    BY <1>1
  <2>2. \A k \in 1 .. n : outs[k] = <<s[k]>>
    BY <1>1
  <2> HIDE DEF outs
  <2> QED
    BY <2>1, <2>2, SingleSeq, ZenonT(30) DEF IsSeq
<1> HIDE DEF outs
<1>3. /\ IsSeq(flat) /\ PartsLength(outs, 0) = 0 /\ PartsLength(outs, n) = Len(flat)
      /\ \A k \in 1 .. n : PartsLength(outs, k) = PartsLength(outs, k - 1) + 1
      /\ \A in, at : Stands(in, at, flat) =>
            \A k \in 1 .. n : Stands(in, at + PartsLength(outs, k - 1), outs[k])
  <2>1. \A k \in 1 .. Len(outs) : IsSeq(outs[k])
    BY <1>2
  <2>2. /\ IsSeq(FlattenSeq(outs))
        /\ PartsLength(outs, 0) = 0 /\ PartsLength(outs, Len(outs)) = Len(FlattenSeq(outs))
        /\ \A k \in 1 .. Len(outs) : PartsLength(outs, k) = PartsLength(outs, k - 1) + Len(outs[k])
        /\ \A in, at : Stands(in, at, FlattenSeq(outs)) =>
              \A k \in 1 .. Len(outs) : Stands(in, at + PartsLength(outs, k - 1), outs[k])
    BY <1>2, <2>1, PartsStand, Zenon
  <2> QED
    BY <1>2, <2>2
<1>4. \A k \in 0 .. n : PartsLength(outs, k) = k
  <2> DEFINE T == {k \in Nat : k <= n => PartsLength(outs, k) = k}
  <2>1. 0 \in T
    BY <1>3
  <2>2. ASSUME NEW k \in Nat, k \in T PROVE k + 1 \in T
    <3>1. SUFFICES ASSUME k + 1 <= n PROVE PartsLength(outs, k + 1) = k + 1
      OBVIOUS
    <3>2. k + 1 \in 1 .. n /\ (k + 1) - 1 = k /\ PartsLength(outs, k) = k
      BY <1>1, <2>2, <3>1
    <3> QED
      BY <1>3, <3>2, Zenon
  <2>3. Nat \subseteq T
    <3> HIDE DEF T
    <3> QED
      BY <2>1, <2>2, Induction, Zenon
  <2> QED
    BY <2>3
<1> HIDE DEF flat
<1>5. Len(flat) = n /\ Len(flat) \in Nat
  BY <1>1, <1>3, <1>4
<1>6. Stands(flat, 1, flat)
  BY <1>5 DEF Stands
<1>7. ASSUME NEW k \in 1 .. n PROVE flat[k] = s[k]
  <2>1. Stands(flat, 1 + (k - 1), outs[k])
    <3>1. PartsLength(outs, k - 1) = k - 1
      BY <1>1, <1>4
    <3>2. Stands(flat, 1 + PartsLength(outs, k - 1), outs[k])
      BY <1>3, <1>6, Zenon
    <3> QED
      BY <3>1, <3>2, Zenon
  <2>2. 1 + (k - 1) + 1 - 1 = k
    OBVIOUS
  <2>3. flat[1 + (k - 1) + 1 - 1] = outs[k][1]
    BY <1>2, <2>1 DEF Stands
  <2> QED
    BY <1>2, <2>2, <2>3
<1>8. PICK S : flat \in Seq(S) /\ s \in Seq(S)
  BY <1>3, SeqsInOne
<1>9. flat = s
  BY <1>5, <1>7, <1>8, SeqEqual
<1> QED
  BY <1>9 DEF flat, outs

LEMMA SmallObjectEncodes ==
    ASSUME NEW id \in DOMAIN Schema, NEW ty \in Types, IsBoxed(ty),
           NEW toks, IsSeq(toks), Len(toks) = Len(Schema[id]),
           \A j \in 1 .. Len(toks) : \E t, v :
              toks[j] = Tok(t, v) /\ IsScalar(t) /\ Schema[id][j] = Plain(t)
    PROVE  Encodes(<<Tok("id", id)>> \o toks, ty, Node(id, toks))
<1> DEFINE outs == [i \in DOMAIN toks |-> <<toks[i]>>]
           n == Len(toks)
<1>1. n \in Nat /\ DOMAIN toks = 1 .. n /\ DOMAIN Schema[id] = 1 .. n
  BY SeqFacts, SchemaFields
<1>2. /\ IsSeq(outs)
      /\ Len(outs) = n
      /\ FlattenSeq(outs) = toks
      /\ \A j \in 1 .. n : outs[j] = <<toks[j]>>
  <2>1. outs \in Seq({<<toks[i]>> : i \in 1 .. n}) /\ Len(outs) = n
    BY <1>1
  <2>2. \A j \in 1 .. n : outs[j] = <<toks[j]>>
    BY <1>1
  <2> QED
    BY <2>1, <2>2, FlattenSingles, Zenon DEF IsSeq
<1> HIDE DEF outs
<1>3. ASSUME NEW j \in 1 .. n
      PROVE  /\ Schema[id][j].flags = NoFlags /\ Schema[id][j].ty \notin {"#", "true"}
             /\ Encodes(outs[j], Schema[id][j].ty, toks[j])
  <2>1. PICK t, v : toks[j] = Tok(t, v) /\ IsScalar(t) /\ Schema[id][j] = Plain(t)
    OBVIOUS
  <2>2. Schema[id][j].flags = NoFlags /\ Schema[id][j].ty = t
    BY <2>1 DEF Plain
  <2>3. t \in Types
    BY <1>1, <2>2, SchemaTypes
  <2>4. Encodes(<<Tok(t, v)>>, t, Tok(t, v))
    BY <2>1, <2>3, ScalarEncodes
  <2>5. t # "#" /\ t # "true"
    BY <2>1 DEF IsScalar
  <2> QED
    BY <1>2, <2>1, <2>2, <2>4, <2>5, Zenon
<1>4. Encodes(<<Tok("id", id)>> \o FlattenSeq(outs), ty, Node(id, toks))
  <2>1. PlainParts(Schema[id], outs, toks)
    BY <1>1, <1>2, <1>3 DEF PlainParts
  <2> QED
    BY <2>1, ObjectEncodes, Zenon
<1> QED
  BY <1>2, <1>4, Zenon

(* A vector of such parts.                                                 *)
LEMMA VectorEncodes ==
    ASSUME NEW ty \in Types, IsVector(ty), NEW outs, NEW m, NEW n \in Nat,
           PlainParts([i \in 1 .. n |-> Plain(ElementOf[ty])], outs, m)
    PROVE  Encodes(<<Tok("id", "vector"), Tok("int", n)>> \o FlattenSeq(outs), ty,
                   Node("vector", m))
<1> DEFINE rest == FlattenSeq(outs)
           fields == [i \in 1 .. n |-> Plain(ElementOf[ty])]
           head == <<Tok("id", "vector"), Tok("int", n)>>
           out == head \o rest
<1>1. IsSeq(rest)
  BY PartsAreSeqs
<1>2. IsSeq(head) /\ Len(head) = 2 /\ head[1] = Tok("id", "vector") /\ head[2] = Tok("int", n)
  <2>1. head \in Seq({Tok("id", "vector"), Tok("int", n)})
    OBVIOUS
  <2> QED
    BY <2>1 DEF IsSeq
<1> HIDE DEF head
<1>3. IsSeq(out) /\ Len(out) = Len(rest) + 2 /\ Len(rest) \in Nat
  <2> HIDE DEF rest
  <2> QED
    <3>1. IsSeq(out) /\ Len(out) = Len(head) + Len(rest) /\ Len(rest) \in Nat
      BY <1>1, <1>2, Concatenated, Zenon
    <3> HIDE DEF out
    <3> QED
      BY <1>2, <3>1
<1>4. ASSUME NEW in, NEW at, NEW d, Stands(in, at, out), d \in 0 .. Len(in), d + at > Len(in)
      PROVE  Readings(in)[d][at][ty] = Found(Node("vector", m), at + Len(out))
  <2>1. Stands(in, at, head) /\ Stands(in, at + 2, rest)
    <3> HIDE DEF rest
    <3>1. Stands(in, at, head) /\ Stands(in, at + Len(head), rest)
      BY <1>1, <1>2, <1>4, StandsSplit
    <3> QED
      BY <1>2, <3>1, Zenon
  <2>2. /\ Len(in) \in Nat /\ at \in Nat \ {0} /\ at + 2 <= Len(in) + 1
        /\ in[at] = Tok("id", "vector") /\ in[at + 1] = Tok("int", n)
    <3>1. /\ Len(in) \in Nat /\ at \in Nat \ {0} /\ at + 2 <= Len(in) + 1
          /\ in[at + 1 - 1] = head[1] /\ in[at + 2 - 1] = head[2]
      BY <1>2, <2>1 DEF Stands
    <3>2. at + 1 - 1 = at /\ at + 2 - 1 = at + 1
      BY <3>1
    <3> QED
      BY <1>2, <3>1, <3>2
  <2>3. at \in 1 .. Len(in) /\ at < Len(in)
    BY <2>2
  <2>4. /\ Readings(in)[d][at][ty] = ReadValue(in, Readings(in)[d - 1], at, ty)
        /\ d - 1 \in 0 .. Len(in) /\ (d - 1) + (at + 1) > Len(in)
    BY <1>4, <2>2, <2>3, ReadsThere
  <2> DEFINE e == d - 1
  <2>5. e \in 0 .. Len(in) /\ e + (at + 2) > Len(in)
    BY <1>4, <2>2, <2>4
  <2>6. ReadFields(in, Readings(in)[e], at + 2, fields)
          = Reached((at + 2) + Len(rest), <<>>, m)
    <3> HIDE DEF e, fields
    <3>1. PlainParts(fields, outs, m)
      BY DEF fields
    <3> QED
      BY <2>1, <2>5, <3>1, PlainFieldsRead
  <2>7. ReadValue(in, Readings(in)[e], at, ty) = ReadVector(in, Readings(in)[e], at, ty)
    <3>1. ~IsScalar(ty)
      BY SchemaAssumption, Zenon DEF IsVector
    <3> QED
      BY <3>1, Zenon DEF ReadValue
  <2>8. /\ in[at].t = "id" /\ in[at].v = "vector"
        /\ in[at + 1].t = "int" /\ in[at + 1].v = n /\ n >= 0
    BY <2>2 DEF Tok
  <2>9. ReadVector(in, Readings(in)[e], at, ty)
          = Gathered("vector", Reached((at + 2) + Len(rest), <<>>, m))
    <3>1. ReadVector(in, Readings(in)[e], at, ty)
            = Gathered("vector", ReadFields(in, Readings(in)[e], at + 2, fields))
      BY <2>3, <2>8 DEF ReadVector
    <3> QED
      BY <2>6, <3>1, Zenon
  <2>10. Gathered("vector", Reached((at + 2) + Len(rest), <<>>, m))
           = Found(Node("vector", m), (at + 2) + Len(rest))
    BY DEF Gathered, Reached
  <2>11. (at + 2) + Len(rest) = at + Len(out)
    BY <1>3, <2>2
  <2> HIDE DEF rest, out, fields
  <2> QED
    BY <2>4, <2>7, <2>9, <2>10, <2>11, Zenon
<1>5. Len(out) >= 1
  BY <1>3
<1> QED
  BY <1>3, <1>4, <1>5, Zenon DEF Encodes, out, head

-----------------------------------------------------------------------------
(* Each kind of value.  The low bits of a number are all there is of it.   *)
LEMMA EuclidInt ==
    ASSUME NEW b \in Nat, b > 0, NEW n \in Int
    PROVE  /\ n \div b \in Int /\ n % b \in 0 .. b - 1
           /\ n = b * (n \div b) + (n % b)
  OBVIOUS

LEMMA SameResidue ==
    ASSUME NEW b \in Nat, b > 0, NEW q \in Int, NEW r \in 0 .. b - 1,
           NEW p \in Int, NEW s \in 0 .. b - 1, b * q + r = b * p + s
    PROVE  r = s
<1>1. ASSUME NEW x \in Int, NEW y \in Int, x < y PROVE b * x + b <= b * y
  <2>1. PICK d \in Nat : y = x + 1 + d
    <3>1. y - x - 1 \in Nat /\ y = x + 1 + (y - x - 1)
      BY <1>1
    <3> QED
      BY <3>1
  <2>2. b * (x + 1 + d) = b * x + b + b * d /\ b * d >= 0
    OBVIOUS
  <2> QED
    BY <2>1, <2>2
<1>2. ~ (q < p)
  <2>1. SUFFICES ASSUME q < p PROVE FALSE
    OBVIOUS
  <2>2. b * q + b <= b * p
    BY <1>1, <2>1
  <2> QED
    BY <2>2
<1>3. ~ (p < q)
  <2>1. SUFFICES ASSUME p < q PROVE FALSE
    OBVIOUS
  <2>2. b * p + b <= b * q
    BY <1>1, <2>1
  <2> QED
    BY <2>2
<1>4. p = q
  BY <1>2, <1>3
<1> QED
  BY <1>4

LEMMA LowBitsAre ==
    ASSUME NEW v \in Int
    PROVE  /\ Narrow(v) \in Int /\ LowBits(v) = Narrow(v)
           /\ v \in -Half .. Half - 1 => Narrow(v) = v
<1> DEFINE b == 2 * Half
           r == (v + Half) % b
<1>1. Half \in Nat \ {0} /\ b \in Nat /\ b > 0
  BY ObjectsAssumption
<1>2. /\ r \in 0 .. b - 1 /\ (v + Half) \div b \in Int
      /\ v + Half = b * ((v + Half) \div b) + r
  BY <1>1, EuclidInt
<1>3. Narrow(v) = r - Half
  BY DEF Narrow
<1> HIDE DEF r
<1>4. Narrow(v) \in -Half .. Half - 1 /\ Narrow(v) \in Int
  BY <1>1, <1>2, <1>3
<1>5. ASSUME NEW n \in -Half .. Half - 1
      PROVE  (v - n) % b = 0 <=> n = Narrow(v)
  <2>1. /\ v - n \in Int /\ (v - n) % b \in 0 .. b - 1 /\ (v - n) \div b \in Int
        /\ v - n = b * ((v - n) \div b) + ((v - n) % b)
    BY <1>1, EuclidInt
  <2> DEFINE q == (v - n) \div b
             s == (v - n) % b
             p == (v + Half) \div b
  <2>2. q \in Int /\ p \in Int /\ s \in 0 .. b - 1 /\ v - n = b * q + s /\ v + Half = b * p + r
    BY <1>2, <2>1
  <2> HIDE DEF q, s, p, b
  <2>3. ASSUME s = 0 PROVE n = Narrow(v)
    <3>1. n + Half \in 0 .. b - 1 /\ b * q + (n + Half) = b * p + r
      BY <1>1, <2>2, <2>3 DEF b
    <3>2. n + Half = r
      BY <1>1, <1>2, <2>2, <3>1, SameResidue
    <3> QED
      BY <1>1, <1>2, <1>3, <3>2
  <2>4. ASSUME n = Narrow(v) PROVE s = 0
    <3>1. n = r - Half
      BY <1>3, <2>4
    <3>2. b * q + s = b * p + 0
      BY <1>1, <1>2, <2>2, <3>1
    <3>3. 0 \in 0 .. b - 1
      BY <1>1
    <3> QED
      BY <1>1, <2>2, <3>2, <3>3, SameResidue
  <2> QED
    BY <2>3, <2>4 DEF s
<1>6. LowBits(v) = Narrow(v)
  BY <1>4, <1>5, Zenon DEF LowBits
<1>7. ASSUME v \in -Half .. Half - 1 PROVE Narrow(v) = v
  <2>1. v - v = 0 /\ 0 % b = 0
    <3>1. 0 \in 0 .. b - 1 /\ 0 \in Nat
      BY <1>1
    <3>2. (b * 0 + 0) % b = 0
      BY <1>1, <3>1, Quotient
    <3> QED
      BY <1>1, <3>2
  <2> QED
    BY <1>5, <1>7, <2>1
<1> QED
  BY <1>4, <1>6, <1>7

LEMMA Tuples ==
    ASSUME NEW a, NEW b, NEW c
    PROVE  /\ <<a, b>> = <<a>> \o <<b>> /\ <<a>> = <<a>> \o <<>>
           /\ IsSeq(<<b>>) /\ IsSeq(<<b, c>>) /\ IsSeq(<<>>)
<1> DEFINE S == {a, b, c}
<1>1. /\ <<a>> \in Seq(S) /\ <<b>> \in Seq(S) /\ <<b, c>> \in Seq(S) /\ <<>> \in Seq(S)
      /\ <<a, b>> \in Seq(S)
  OBVIOUS
<1>2. <<a, b>> = <<a>> \o <<b>>
  <2> DEFINE s == <<a>>
             t == <<b>>
             u == <<a, b>>
  <2>1. /\ Len(s) = 1 /\ s[1] = a /\ Len(t) = 1 /\ t[1] = b /\ Len(u) = 2 /\ u[1] = a /\ u[2] = b
        /\ s \in Seq(S) /\ t \in Seq(S) /\ u \in Seq(S)
    BY <1>1
  <2> HIDE DEF s, t, u, S
  <2>2. /\ s \o t \in Seq(S) /\ Len(s \o t) = 2
        /\ \A i \in 1 .. 2 : (s \o t)[i] = IF i <= 1 THEN s[i] ELSE t[i - 1]
    <3>1. /\ s \o t \in Seq(S) /\ Len(s \o t) = Len(s) + Len(t)
          /\ \A i \in 1 .. Len(s) + Len(t) :
                (s \o t)[i] = IF i <= Len(s) THEN s[i] ELSE t[i - Len(s)]
      BY <2>1, ConcatProperties, Zenon
    <3> QED
      BY <2>1, <3>1
  <2>3. (s \o t)[1] = a /\ (s \o t)[2] = b
    BY <2>1, <2>2
  <2>4. u = s \o t
    BY <2>1, <2>2, <2>3, SeqEqual
  <2> QED
    BY <2>4 DEF s, t, u
<1>3. <<a>> = <<a>> \o <<>>
  <2> HIDE DEF S
  <2> QED
    BY <1>1, ConcatEmptySeq
<1> QED
  BY <1>1, <1>2, <1>3 DEF IsSeq

LEMMA Triples ==
    ASSUME NEW a, NEW b, NEW c
    PROVE  <<a, b, c>> = <<a>> \o <<b, c>>
<1> DEFINE S == {a, b, c}
<1>1. <<a>> \in Seq(S) /\ <<b, c>> \in Seq(S) /\ <<a, b, c>> \in Seq(S)
  OBVIOUS
<1> DEFINE s == <<a>>
           t == <<b, c>>
           u == <<a, b, c>>
<1>2. /\ Len(s) = 1 /\ s[1] = a /\ Len(t) = 2 /\ t[1] = b /\ t[2] = c
      /\ Len(u) = 3 /\ u[1] = a /\ u[2] = b /\ u[3] = c
      /\ s \in Seq(S) /\ t \in Seq(S) /\ u \in Seq(S)
  BY <1>1
<1> HIDE DEF s, t, u, S
<1>3. /\ s \o t \in Seq(S) /\ Len(s \o t) = 3
      /\ \A i \in 1 .. 3 : (s \o t)[i] = IF i <= 1 THEN s[i] ELSE t[i - 1]
  <2>1. /\ s \o t \in Seq(S) /\ Len(s \o t) = Len(s) + Len(t)
        /\ \A i \in 1 .. Len(s) + Len(t) :
              (s \o t)[i] = IF i <= Len(s) THEN s[i] ELSE t[i - Len(s)]
    BY <1>2, ConcatProperties, Zenon
  <2> QED
    BY <1>2, <2>1
<1>4. (s \o t)[1] = a /\ (s \o t)[2] = b /\ (s \o t)[3] = c
  BY <1>2, <1>3
<1>5. u = s \o t
  BY <1>2, <1>3, <1>4, SeqEqual
<1> QED
  BY <1>5 DEF s, t, u

LEMMA EmptyEncodes ==
    ASSUME NEW id \in DOMAIN Schema, Schema[id] = <<>>, NEW ty \in Types, IsBoxed(ty)
    PROVE  Encodes(<<Tok("id", id)>>, ty, Node(id, <<>>))
<1> DEFINE toks == <<>>
<1>1. IsSeq(toks) /\ Len(toks) = Len(Schema[id]) /\ 1 .. Len(toks) = {}
  <2>1. Len(<<>>) = 0 /\ 1 .. 0 = {}
    OBVIOUS
  <2>2. IsSeq(toks) /\ toks = Schema[id]
    BY SingleSeq, Zenon
  <2> QED
    BY <2>1, <2>2, Zenon
<1>2. Encodes(<<Tok("id", id)>> \o toks, ty, Node(id, toks))
  <2>1. \A j \in 1 .. Len(toks) : \E t, v :
           toks[j] = Tok(t, v) /\ IsScalar(t) /\ Schema[id][j] = Plain(t)
    BY <1>1
  <2> HIDE DEF toks
  <2> QED
    BY <1>1, <2>1, SmallObjectEncodes
<1> QED
  BY <1>2, Tuples, Zenon

LEMMA NumberEncodes ==
    ASSUME NEW ty \in Types, NEW value, ty \in {"int", "long", "Bool"},
           \/ value.kind = "I32" /\ value.v \in -Half .. Half - 1
           \/ value.kind = "I64" /\ value.v \in Int /\ ty # "Bool"
    PROVE  Encodes(WriteValue(Serialize, ty, value).out, ty, MeantNumber(ty, value.v))
<1>0. value.v \in Int /\ ~IsListOf(ty, value.kind)
  BY ObjectsAssumption DEF IsListOf
<1>1. CASE ty = "Bool"
  <2> DEFINE id == IF value.v # 0 THEN "boolTrue" ELSE "boolFalse"
  <2>1. WriteValue(Serialize, ty, value) = Written(BoolOut(value.v))
    BY <1>0, <1>1 DEF WriteValue
  <2>2. WriteValue(Serialize, ty, value).out = <<Tok("id", id)>>
    BY <2>1 DEF BoolOut, Written
  <2>3. MeantNumber(ty, value.v) = Node(id, <<>>)
    BY <1>1 DEF MeantNumber
  <2>4. /\ "boolTrue" \in DOMAIN Schema /\ Schema["boolTrue"] = <<>>
        /\ "boolFalse" \in DOMAIN Schema /\ Schema["boolFalse"] = <<>>
        /\ ~IsVector("Bool")
    BY KnownObjectsAssumption
  <2>5. IsBoxed(ty)
    BY <1>1, <2>4 DEF IsBoxed, IsScalar
  <2> HIDE DEF id
  <2>6. id \in DOMAIN Schema /\ Schema[id] = <<>>
    BY <2>4 DEF id
  <2> QED
    BY <2>2, <2>3, <2>5, <2>6, EmptyEncodes
<1>2. CASE ty # "Bool"
  <2>1. WriteValue(Serialize, ty, value) = Written(<<ScalarOut(ty, value)>>)
    BY <1>0, <1>2 DEF WriteValue
  <2>2. WriteValue(Serialize, ty, value).out = <<ScalarOut(ty, value)>>
    BY <2>1 DEF Written
  <2>3. ScalarOut(ty, value) = MeantNumber(ty, value.v)
    <3>1. CASE ty = "long"
      BY <1>2, <3>1 DEF ScalarOut, MeantNumber
    <3>2. CASE ty = "int" /\ value.kind = "I64"
      <4>1. LowBits(value.v) = Narrow(value.v)
        BY <1>0, LowBitsAre
      <4> QED
        BY <3>2, <4>1 DEF ScalarOut, MeantNumber
    <3>3. CASE ty = "int" /\ value.kind = "I32"
      <4>1. LowBits(value.v) = value.v
        BY <1>0, <3>3, LowBitsAre
      <4> QED
        BY <3>3, <4>1 DEF ScalarOut, MeantNumber
    <3> QED
      BY <1>2, <3>1, <3>2, <3>3
  <2>4. IsScalar(ty) /\ \E v : MeantNumber(ty, value.v) = Tok(ty, v)
    BY <1>2 DEF IsScalar, MeantNumber
  <2> QED
    BY <2>2, <2>3, <2>4, ScalarEncodes
<1> QED
  BY <1>1, <1>2

LEMMA PeerEncodes ==
    ASSUME NEW value, value.kind = "Peer", "InputPeer" \in Types, value.numbers \in Seq(Int),
           <<value.id, Len(value.numbers)>> \in Peers
    PROVE  Encodes(WriteValue(Serialize, "InputPeer", value).out, "InputPeer",
                   Meaning(Meant, "InputPeer", value))
<1> DEFINE id == value.id
           toks == [i \in DOMAIN value.numbers |-> Tok("long", value.numbers[i])]
           n == Len(value.numbers)
<1>1. n \in Nat /\ DOMAIN value.numbers = 1 .. n
  OBVIOUS
<1>2. /\ id \in DOMAIN Schema /\ Schema[id] = [i \in 1 .. n |-> Plain("long")]
      /\ ~IsVector("InputPeer")
  BY KnownObjectsAssumption
<1>3. IsSeq(toks) /\ Len(toks) = n
  <2>1. toks \in Seq({Tok("long", value.numbers[i]) : i \in 1 .. n}) /\ Len(toks) = n
    BY <1>1
  <2> QED
    BY <2>1 DEF IsSeq
<1>4. Len(Schema[id]) = n /\ \A j \in 1 .. n : Schema[id][j] = Plain("long")
  BY <1>1, <1>2
<1>5. \A j \in 1 .. n : toks[j] = Tok("long", value.numbers[j])
  BY <1>1
<1>6. IsBoxed("InputPeer")
  BY <1>2 DEF IsBoxed, IsScalar
<1>7. WriteValue(Serialize, "InputPeer", value).out = <<Tok("id", id)>> \o toks
  BY DEF WriteValue, Written, IsListOf, PeerOut
<1>8. Meaning(Meant, "InputPeer", value) = Node(id, toks)
  BY DEF Meaning
<1> HIDE DEF toks, id
<1>9. \A j \in 1 .. Len(toks) : \E t, v :
         toks[j] = Tok(t, v) /\ IsScalar(t) /\ Schema[id][j] = Plain(t)
  BY <1>3, <1>4, <1>5 DEF IsScalar
<1> QED
  BY <1>2, <1>3, <1>4, <1>6, <1>7, <1>8, <1>9, SmallObjectEncodes

LEMMA ItemEncodes ==
    ASSUME NEW ty, NEW kind, IsListOf(ty, kind), NEW v \in Int
    PROVE  /\ IsVector(ty)
           /\ ElementOf[ty] # "#" /\ ElementOf[ty] # "true"
           /\ Encodes(ItemOut(kind, v), ElementOf[ty], MeantItem(kind, v))
<1>1. /\ IsVector("Vector<int>") /\ ElementOf["Vector<int>"] = "int"
      /\ IsVector("Vector<long>") /\ ElementOf["Vector<long>"] = "long"
      /\ IsVector("Vector<InputMessage>") /\ ElementOf["Vector<InputMessage>"] = "InputMessage"
      /\ IsVector("Vector<InputUser>") /\ ElementOf["Vector<InputUser>"] = "InputUser"
      /\ ~IsVector("InputMessage") /\ ~IsVector("InputUser")
      /\ "inputMessageID" \in DOMAIN Schema /\ Schema["inputMessageID"] = <<Plain("int")>>
      /\ "inputUser" \in DOMAIN Schema /\ Schema["inputUser"] = <<Plain("long"), Plain("long")>>
  BY KnownObjectsAssumption
<1>2. IsVector(ty) => ElementOf[ty] \in Types
  BY SchemaTypes DEF IsVector
<1>3. CASE ty = "Vector<int>" /\ kind = "Ints"
  <2>1. /\ ItemOut(kind, v) = <<Tok("int", v)>> /\ MeantItem(kind, v) = Tok("int", v)
        /\ ElementOf[ty] = "int" /\ IsScalar("int") /\ "int" \in Types /\ IsVector(ty)
    BY <1>1, <1>2, <1>3 DEF ItemOut, MeantItem, IsScalar
  <2> QED
    BY <2>1, ScalarEncodes
<1>4. CASE ty = "Vector<long>" /\ kind = "Longs"
  <2>1. /\ ItemOut(kind, v) = <<Tok("long", v)>> /\ MeantItem(kind, v) = Tok("long", v)
        /\ ElementOf[ty] = "long" /\ IsScalar("long") /\ "long" \in Types /\ IsVector(ty)
    BY <1>1, <1>2, <1>4 DEF ItemOut, MeantItem, IsScalar
  <2> QED
    BY <2>1, ScalarEncodes
<1>5. CASE ty = "Vector<InputMessage>" /\ kind = "MessageIds"
  <2> DEFINE toks == <<Tok("int", v)>>
  <2>1. /\ ItemOut(kind, v) = <<Tok("id", "inputMessageID"), Tok("int", v)>>
        /\ MeantItem(kind, v) = Node("inputMessageID", toks)
        /\ ElementOf[ty] = "InputMessage" /\ "InputMessage" \in Types /\ IsVector(ty)
        /\ IsBoxed("InputMessage")
    BY <1>1, <1>2, <1>5 DEF ItemOut, MeantItem, IsBoxed, IsScalar
  <2>2. /\ ItemOut(kind, v) = <<Tok("id", "inputMessageID")>> \o toks /\ IsSeq(toks)
    BY <2>1, Tuples, Zenon
  <2>3. /\ Len(toks) = 1 /\ Len(Schema["inputMessageID"]) = 1 /\ toks[1] = Tok("int", v)
        /\ Schema["inputMessageID"][1] = Plain("int") /\ IsScalar("int")
    BY <1>1 DEF IsScalar
  <2> HIDE DEF toks
  <2>4. \A j \in 1 .. Len(toks) : \E t, u :
           toks[j] = Tok(t, u) /\ IsScalar(t) /\ Schema["inputMessageID"][j] = Plain(t)
    <3>1. \A j \in 1 .. Len(toks) : j = 1
      BY <2>3
    <3> QED
      BY <2>3, <3>1, Zenon
  <2>5. Encodes(<<Tok("id", "inputMessageID")>> \o toks, "InputMessage", Node("inputMessageID", toks))
    BY <1>1, <2>1, <2>2, <2>3, <2>4, SmallObjectEncodes
  <2> QED
    BY <2>1, <2>2, <2>5
<1>6. CASE ty = "Vector<InputUser>" /\ kind = "UserIds"
  <2> DEFINE toks == <<Tok("long", v), Tok("long", 0)>>
  <2>1. /\ ItemOut(kind, v) = <<Tok("id", "inputUser"), Tok("long", v), Tok("long", 0)>>
        /\ MeantItem(kind, v) = Node("inputUser", toks)
        /\ ElementOf[ty] = "InputUser" /\ "InputUser" \in Types /\ IsVector(ty)
        /\ IsBoxed("InputUser")
    BY <1>1, <1>2, <1>6 DEF ItemOut, MeantItem, IsBoxed, IsScalar
  <2>2. /\ ItemOut(kind, v) = <<Tok("id", "inputUser")>> \o toks /\ IsSeq(toks)
    <3>1. <<Tok("id", "inputUser"), Tok("long", v), Tok("long", 0)>>
            = <<Tok("id", "inputUser")>> \o <<Tok("long", v), Tok("long", 0)>>
      BY Triples, Zenon
    <3>2. IsSeq(toks)
      BY Tuples, Zenon
    <3> QED
      BY <2>1, <3>1, <3>2, Zenon
  <2>3. /\ Len(toks) = 2 /\ Len(Schema["inputUser"]) = 2
        /\ toks[1] = Tok("long", v) /\ toks[2] = Tok("long", 0)
        /\ Schema["inputUser"][1] = Plain("long") /\ Schema["inputUser"][2] = Plain("long")
        /\ IsScalar("long")
    BY <1>1 DEF IsScalar
  <2> HIDE DEF toks
  <2>4. \A j \in 1 .. Len(toks) : \E t, u :
           toks[j] = Tok(t, u) /\ IsScalar(t) /\ Schema["inputUser"][j] = Plain(t)
    <3>1. \A j \in 1 .. Len(toks) : j = 1 \/ j = 2
      BY <2>3
    <3> QED
      BY <2>3, <3>1, Zenon
  <2>5. Encodes(<<Tok("id", "inputUser")>> \o toks, "InputUser", Node("inputUser", toks))
    BY <1>1, <2>1, <2>2, <2>3, <2>4, SmallObjectEncodes
  <2> QED
    BY <2>1, <2>2, <2>5
<1> QED
  BY <1>3, <1>4, <1>5, <1>6 DEF IsListOf

LEMMA ListEncodes ==
    ASSUME NEW ty \in Types, NEW value, IsListOf(ty, value.kind), value.items \in Seq(Int),
           Len(value.items) < Half
    PROVE  Encodes(WriteValue(Serialize, ty, value).out, ty, Meaning(Meant, ty, value))
<1> DEFINE items == value.items
           n == Len(items)
           outs == [i \in DOMAIN items |-> ItemOut(value.kind, items[i])]
           m == [i \in DOMAIN items |-> MeantItem(value.kind, items[i])]
           fields == [i \in 1 .. n |-> Plain(ElementOf[ty])]
<1>1. /\ n \in Nat /\ DOMAIN items = 1 .. n /\ \A i \in 1 .. n : items[i] \in Int
  OBVIOUS
<1>2. /\ IsSeq(outs) /\ Len(outs) = n /\ \A i \in 1 .. n : outs[i] = ItemOut(value.kind, items[i])
      /\ IsSeq(m) /\ Len(m) = n /\ \A i \in 1 .. n : m[i] = MeantItem(value.kind, items[i])
  <2>1. /\ outs \in Seq({ItemOut(value.kind, items[i]) : i \in 1 .. n}) /\ Len(outs) = n
        /\ m \in Seq({MeantItem(value.kind, items[i]) : i \in 1 .. n}) /\ Len(m) = n
    BY <1>1
  <2>2. /\ \A i \in 1 .. n : outs[i] = ItemOut(value.kind, items[i])
        /\ \A i \in 1 .. n : m[i] = MeantItem(value.kind, items[i])
    BY <1>1
  <2> QED
    BY <2>1, <2>2, Zenon DEF IsSeq
<1>3. IsVector(ty)
  BY ItemEncodes
<1>4. value.kind \in {"Ints", "Longs", "MessageIds", "UserIds"}
  BY DEF IsListOf
<1>5. Narrow(n) = n
  <2>1. n \in Int /\ n \in -Half .. Half - 1
    BY <1>1, ObjectsAssumption
  <2> QED
    BY <2>1, LowBitsAre
<1>6. WriteValue(Serialize, ty, value).out
        = <<Tok("id", "vector"), Tok("int", n)>> \o FlattenSeq(outs)
  <2>1. WriteValue(Serialize, ty, value) = Written(ListOut(value))
    BY <1>4 DEF WriteValue
  <2>2. WriteValue(Serialize, ty, value).out = ListOut(value)
    BY <2>1 DEF Written
  <2> QED
    BY <1>5, <2>2, Zenon DEF ListOut
<1>7. Meaning(Meant, ty, value) = Node("vector", m)
  BY <1>4 DEF Meaning
<1> HIDE DEF outs, m, items
<1>8. /\ Len(fields) = n
      /\ \A i \in 1 .. n : fields[i].flags = NoFlags /\ fields[i].ty = ElementOf[ty]
  BY <1>1 DEF Plain
<1> HIDE DEF fields
<1>9. ASSUME NEW i \in 1 .. n
      PROVE  /\ fields[i].flags = NoFlags /\ fields[i].ty # "#" /\ fields[i].ty # "true"
             /\ Encodes(outs[i], fields[i].ty, m[i])
  <2>1. /\ ElementOf[ty] # "#" /\ ElementOf[ty] # "true"
        /\ Encodes(ItemOut(value.kind, items[i]), ElementOf[ty], MeantItem(value.kind, items[i]))
    BY <1>1, ItemEncodes
  <2> QED
    BY <1>2, <1>8, <2>1, Zenon
<1>10. PlainParts(fields, outs, m)
  BY <1>1, <1>2, <1>8, <1>9 DEF PlainParts
<1>11. Encodes(<<Tok("id", "vector"), Tok("int", n)>> \o FlattenSeq(outs), ty, Node("vector", m))
  BY <1>1, <1>3, <1>10, VectorEncodes DEF fields
<1> QED
  BY <1>6, <1>7, <1>11, Zenon

(* The reply, written with no flag set: its other fields are left out.     *)
ReplyFields == Schema["inputReplyToMessage"]
NoBits == {}
ReplyMeant(tok) == [i \in 1 .. Len(ReplyFields) - 1 |-> IF i = 1 THEN tok ELSE Absent]

LEMMA ReplyDeclared ==
    /\ "inputReplyToMessage" \in DOMAIN Schema
    /\ Len(ReplyFields) \in Nat /\ Len(ReplyFields) > 1
    /\ ReplyFields[1].ty = "#" /\ ReplyFields[2].ty = "int" /\ ReplyFields[2].flags = NoFlags
    /\ \A j \in 3 .. Len(ReplyFields) :
          IsConditional(ReplyFields[j]) /\ ReplyFields[j].flags = 0
    /\ "int" \in Types /\ ~IsVector("InputReplyTo")
<1> DEFINE id == "inputReplyToMessage"
           reply == Schema[id]
<1>1. /\ id \in DOMAIN Schema /\ Len(reply) > 1 /\ ~IsVector("InputReplyTo")
      /\ IsFlagsWord(reply[1]) /\ reply[2] = Plain("int")
      /\ \A j \in 3 .. Len(reply) : IsConditional(reply[j]) /\ reply[j].flags = 0
  BY KnownObjectsAssumption, Zenon
<1>2. Len(reply) \in Nat /\ DOMAIN reply = 1 .. Len(reply)
  BY <1>1, SchemaFields
<1>3. reply[1].ty = "#" /\ reply[2].ty = "int" /\ reply[2].flags = NoFlags
  BY <1>1 DEF Plain, IsFlagsWord
<1>4. 2 \in DOMAIN reply
  BY <1>1, <1>2
<1>5. "int" \in Types
  BY <1>1, <1>3, <1>4, SchemaTypes, Zenon
<1> QED
  BY <1>1, <1>2, <1>3, <1>5, Zenon DEF ReplyFields

LEMMA ReplyFieldsRead ==
    ASSUME NEW in, NEW inner, NEW at, NEW next, NEW end, at <= Len(in), next <= Len(in),
           next = at + 1, in[at] = Tok("flags", NoBits),
           NEW tok, inner[next]["int"] = Found(tok, end)
    PROVE  ReadFields(in, inner, at, ReplyFields)
             = Reached(end, <<NoBits>>, ReplyMeant(tok))
<1> DEFINE n == Len(ReplyFields)
           none == NoBits
           words == <<none>>
           fields == ReplyFields
           m == [i \in 1 .. n - 1 |-> IF i = 1 THEN tok ELSE Absent]
           upto(j) == [i \in 1 .. j |-> m[i]]
           empty == <<>>
           K == [j \in 0 .. n |-> IF j = 0 THEN Reached(at, empty, empty)
                                  ELSE IF j = 1 THEN Reached(next, words, empty)
                                  ELSE Reached(end, words, upto(j - 1))]
<1>0. /\ n \in Nat /\ n > 1 /\ fields[1].ty = "#" /\ fields[2].ty = "int"
      /\ fields[2].flags = NoFlags /\ none = {}
      /\ in[at] = Tok("flags", none) /\ n = Len(fields)
      /\ \A j \in 3 .. n : IsConditional(fields[j]) /\ fields[j].flags = 0
  BY ReplyDeclared DEF NoBits
<1>1. /\ K[0] = Reached(at, empty, empty) /\ K[1] = Reached(next, words, empty)
      /\ \A j \in 2 .. n : K[j] = Reached(end, words, upto(j - 1))
  <2> HIDE DEF empty, upto, words
  <2> QED
    BY <1>0
<1>2. m[1] = tok /\ \A i \in 2 .. n - 1 : m[i] = Absent
  BY <1>0
<1>3. upto(0) = empty /\ upto(n - 1) = m
  BY <1>0
<1> HIDE DEF m
<1>4. ASSUME NEW j \in Nat PROVE Append(upto(j), m[j + 1]) = upto(j + 1)
  BY OneMore, Zenon
<1>5. Append(empty, none) = words /\ words[1] = none
  OBVIOUS
<1> HIDE DEF K, upto, empty, words, fields, n, none
<1>6. ASSUME NEW j \in 1 .. n
      PROVE  K[j] = ReadField(in, inner, K[j - 1], fields[j])
  <2>1. CASE j = 1
    <3>1. ReadField(in, inner, Reached(at, empty, empty), fields[1])
            = Reached(next, Append(empty, none), empty)
      BY <1>0, TakesWord
    <3>2. j - 1 = 0
      BY <2>1
    <3> QED
      BY <1>1, <1>5, <2>1, <3>1, <3>2, Zenon
  <2>2. CASE j = 2
    <3>1. fields[2].ty # "#" /\ fields[2].ty # "true"
      BY <1>0
    <3>2. ReadField(in, inner, Reached(next, words, empty), fields[2])
            = Reached(end, words, Append(empty, tok))
      BY <1>0, <3>1, TakesValue
    <3>3. Append(empty, tok) = upto(1)
      <4>1. 0 \in Nat /\ 0 + 1 = 1
        OBVIOUS
      <4>2. Append(upto(0), m[0 + 1]) = upto(0 + 1)
        BY <1>4, <4>1, Zenon
      <4> QED
        BY <1>2, <1>3, <4>1, <4>2, Zenon
    <3>4. j - 1 = 1 /\ j \in 2 .. n
      BY <2>2
    <3>5. K[j] = Reached(end, words, upto(1))
      BY <1>1, <3>4, Zenon
    <3> QED
      BY <1>1, <2>2, <3>2, <3>3, <3>4, <3>5, Zenon
  <2>3. CASE j \in 3 .. n
    <3>1. /\ j \in 2 .. n /\ j - 1 \in 2 .. n /\ j - 2 \in Nat /\ (j - 1) - 1 = j - 2
          /\ (j - 2) + 1 = j - 1 /\ j - 1 \in 2 .. n - 1
      BY <1>0, <2>3
    <3>2. fields[j].ty # "#" /\ fields[j].flags # NoFlags /\ fields[j].flags = 0
      BY <1>0, <2>3 DEF IsConditional
    <3>3. fields[j].bit \notin words[fields[j].flags + 1]
      <4>1. 0 + 1 = 1
        OBVIOUS
      <4> QED
        BY <1>0, <1>5, <3>2, <4>1
    <3>4. ReadField(in, inner, Reached(end, words, upto(j - 2)), fields[j])
            = Reached(end, words, Append(upto(j - 2), Absent))
      BY <3>2, <3>3, LeavesOut
    <3>5. Append(upto(j - 2), Absent) = upto(j - 1)
      BY <1>2, <1>4, <3>1, Zenon
    <3>6. /\ K[j] = Reached(end, words, upto(j - 1))
          /\ K[j - 1] = Reached(end, words, upto(j - 2))
      BY <1>1, <3>1, Zenon
    <3> QED
      BY <3>4, <3>5, <3>6, Zenon
  <2> QED
    BY <2>1, <2>2, <2>3
<1>7. ReadFields(in, inner, at, fields) = K[n]
  <2>1. Len(fields) \in Nat /\ K[0] = Reached(at, <<>>, <<>>)
    BY <1>0, <1>1 DEF empty
  <2>2. \A j \in 1 .. Len(fields) : K[j] = ReadField(in, inner, K[j - 1], fields[j])
    BY <1>0, <1>6
  <2>3. ReadFields(in, inner, at, fields) = K[Len(fields)]
    BY <2>1, <2>2, FieldsRead
  <2> QED
    BY <1>0, <2>3
<1>8. n \in 2 .. n
  BY <1>0
<1> QED
  BY <1>1, <1>3, <1>7, <1>8, Zenon DEF words, m, fields, n, none, ReplyMeant

LEMMA ReplyEncodes ==
    ASSUME NEW value, value.kind = "ReplyTo", "InputReplyTo" \in Types
    PROVE  Encodes(WriteValue(Serialize, "InputReplyTo", value).out, "InputReplyTo",
                   Meaning(Meant, "InputReplyTo", value))
<1> DEFINE id == "inputReplyToMessage"
           ty == "InputReplyTo"
           tok == Tok("int", value.v)
           out == <<Tok("id", id), Tok("flags", NoBits), tok>>
           m == ReplyMeant(tok)
<1>1. id \in DOMAIN Schema /\ Schema[id] = ReplyFields /\ IsBoxed(ty) /\ ty \in Types
  <2>1. ~IsVector(ty) /\ id \in DOMAIN Schema
    BY ReplyDeclared
  <2> QED
    BY <2>1 DEF IsBoxed, IsScalar, ReplyFields
<1>3. WriteValue(Serialize, ty, value).out = out
  BY DEF WriteValue, Written, IsListOf, ReplyOut, NoBits
<1>4. Meaning(Meant, ty, value) = Node(id, m)
  BY DEF Meaning, ReplyMeant, ReplyFields
<1>5. /\ IsSeq(out) /\ Len(out) = 3
      /\ out[1] = Tok("id", id) /\ out[2] = Tok("flags", NoBits) /\ out[3] = tok
  <2>1. out \in Seq({Tok("id", id), Tok("flags", NoBits), tok})
    OBVIOUS
  <2> QED
    BY <2>1 DEF IsSeq
<1>6. Encodes(<<tok>>, "int", tok) /\ IsSeq(<<tok>>) /\ Len(<<tok>>) = 1
  <2>1. "int" \in Types /\ IsScalar("int")
    BY ReplyDeclared DEF IsScalar
  <2> QED
    BY <2>1, ScalarEncodes, SingleSeq
<1> HIDE DEF out
<1>8. ASSUME NEW in, NEW at, NEW d, Stands(in, at, out), d \in 0 .. Len(in), d + at > Len(in)
      PROVE  Readings(in)[d][at][ty] = Found(Node(id, m), at + Len(out))
  <2> DEFINE e == d - 1
             next == at + 1
             then == at + 2
             end == at + 3
  <2>1. /\ Len(in) \in Nat /\ at \in Nat \ {0} /\ end <= Len(in) + 1
        /\ in[at] = Tok("id", id) /\ in[next] = Tok("flags", NoBits) /\ in[then] = tok
    <3>1. /\ Len(in) \in Nat /\ at \in Nat \ {0} /\ at + 3 <= Len(in) + 1
          /\ in[at + 1 - 1] = out[1] /\ in[at + 2 - 1] = out[2] /\ in[at + 3 - 1] = out[3]
      BY <1>5, <1>8 DEF Stands
    <3>2. at + 1 - 1 = at /\ at + 2 - 1 = at + 1 /\ at + 3 - 1 = at + 2
      BY <3>1
    <3> QED
      BY <1>5, <3>1, <3>2
  <2>2. at \in 1 .. Len(in) /\ next <= Len(in) /\ then <= Len(in) /\ then = next + 1
    BY <2>1
  <2>3. e \in 0 .. Len(in) /\ e + then > Len(in) /\ then + 1 = end /\ then \in Nat \ {0}
    BY <1>1, <1>8, <2>1, <2>2
  <2>4. Readings(in)[e][then]["int"] = Found(tok, end)
    <3> DEFINE s == <<tok>>
    <3>1. Len(s) = 1 /\ s[1] = tok /\ then + 1 - 1 = then /\ then + 1 <= Len(in) + 1
      BY <2>1, <2>2
    <3> HIDE DEF s, then, end, e
    <3>2. Stands(in, then, s)
      <4>1. \A i \in 1 .. Len(s) : i = 1
        BY <3>1
      <4> QED
        BY <2>1, <2>3, <3>1, <4>1 DEF Stands
    <3>3. Readings(in)[e][then]["int"] = Found(tok, then + Len(s))
      BY <1>6, <2>3, <3>2, Zenon DEF Encodes, s
    <3> QED
      BY <2>3, <3>1, <3>3, Zenon
  <2>5. ReadFields(in, Readings(in)[e], next, Schema[id]) = Reached(end, <<NoBits>>, m)
    <3> HIDE DEF e, tok, id, next, then, end, m
    <3>1. ReadFields(in, Readings(in)[e], next, ReplyFields) = Reached(end, <<NoBits>>, ReplyMeant(tok))
      BY <2>1, <2>2, <2>4, ReplyFieldsRead
    <3> QED
      BY <1>1, <3>1 DEF m
  <2> HIDE DEF m, id, tok, ty, end
  <2>6. Readings(in)[d][at][ty] = Found(Node(id, m), end)
    BY <1>1, <1>8, <2>1, <2>2, <2>5, ObjectIsRead
  <2> QED
    BY <1>5, <2>6, Zenon DEF end
<1>9. Len(out) >= 1
  BY <1>5
<1> QED
  BY <1>3, <1>4, <1>5, <1>8, <1>9, Zenon DEF Encodes

(* A value that fits its type is written as TL reads it.                   *)
LEMMA ValueEncodes ==
    ASSUME NEW ty \in Types, NEW value, FitsType(ty, value),
           value.kind = "Boxed" =>
              \A t \in Types : IsBoxed(t) =>
                 Encodes(Serialize[value.object].out, t, Meant[value.object])
    PROVE  Encodes(WriteValue(Serialize, ty, value).out, ty, Meaning(Meant, ty, value))
<1>1. CASE \/ value.kind = "I32" /\ ty \in {"int", "long", "Bool"}
              /\ value.v \in -Half .. Half - 1
           \/ value.kind = "I64" /\ ty \in {"int", "long"} /\ value.v \in Int
  <2>1. Meaning(Meant, ty, value) = MeantNumber(ty, value.v)
    BY <1>1 DEF Meaning
  <2>2. Encodes(WriteValue(Serialize, ty, value).out, ty, MeantNumber(ty, value.v))
    <3>1. /\ ty \in {"int", "long", "Bool"}
          /\ \/ value.kind = "I32" /\ value.v \in -Half .. Half - 1
             \/ value.kind = "I64" /\ value.v \in Int /\ ty # "Bool"
      BY <1>1
    <3> QED
      BY <3>1, NumberEncodes
  <2> QED
    BY <2>1, <2>2, Zenon
<1>2. CASE \/ value.kind = "Str" /\ ty = "string"
           \/ value.kind = "Bytes" /\ ty = "bytes"
  <2>1. IsScalar(ty) /\ ty # "Bool"
    BY <1>2 DEF IsScalar
  <2>2. Meaning(Meant, ty, value) = Tok(ty, value.v)
    BY <1>2 DEF Meaning
  <2>3. WriteValue(Serialize, ty, value) = Written(<<ScalarOut(ty, value)>>)
    BY <1>2 DEF WriteValue, IsListOf
  <2>4. ScalarOut(ty, value) = Tok(ty, value.v)
    BY <1>2 DEF ScalarOut
  <2>5. WriteValue(Serialize, ty, value).out = <<Tok(ty, value.v)>>
    BY <2>3, <2>4 DEF Written
  <2>6. Encodes(<<Tok(ty, value.v)>>, ty, Tok(ty, value.v))
    BY <2>1, ScalarEncodes
  <2> QED
    BY <2>2, <2>5, <2>6, Zenon
<1>3. CASE /\ value.kind = "Peer" /\ ty = "InputPeer" /\ value.numbers \in Seq(Int)
           /\ <<value.id, Len(value.numbers)>> \in Peers
  BY <1>3, PeerEncodes
<1>4. CASE IsListOf(ty, value.kind) /\ value.items \in Seq(Int) /\ Len(value.items) < Half
  BY <1>4, ListEncodes
<1>5. CASE value.kind = "ReplyTo" /\ ty = "InputReplyTo"
  BY <1>5, ReplyEncodes
<1>6. CASE /\ value.kind = "Empty" /\ IsBoxed(ty) /\ value.id \in DOMAIN Schema
           /\ Schema[value.id] = <<>>
  <2>1. Meaning(Meant, ty, value) = Node(value.id, <<>>)
    BY <1>6 DEF Meaning
  <2>2. WriteValue(Serialize, ty, value).out = <<Tok("id", value.id)>>
    BY <1>6 DEF WriteValue, IsListOf, Written
  <2>3. Encodes(<<Tok("id", value.id)>>, ty, Node(value.id, <<>>))
    BY <1>6, EmptyEncodes
  <2> QED
    BY <2>1, <2>2, <2>3, Zenon
<1>7. CASE value.kind = "Boxed" /\ IsBoxed(ty)
  <2>1. Meaning(Meant, ty, value) = Meant[value.object]
    BY <1>7 DEF Meaning
  <2>2. WriteValue(Serialize, ty, value) = Serialize[value.object]
    BY <1>7 DEF WriteValue, IsListOf
  <2>3. Encodes(Serialize[value.object].out, ty, Meant[value.object])
    BY <1>7
  <2> QED
    BY <2>1, <2>2, <2>3, Zenon
<1> QED
  BY <1>1, <1>2, <1>3, <1>4, <1>5, <1>6, <1>7 DEF FitsType

Upto(s, k) == [i \in 1 .. k |-> s[i]]

LEMMA UptoGrows ==
    ASSUME NEW s, NEW k \in Nat
    PROVE  /\ Upto(s, 0) = <<>>
           /\ Append(Upto(s, k), s[k + 1]) = Upto(s, k + 1)
           /\ \A i \in 1 .. k : Upto(s, k)[i] = s[i]
<1>1. Append([i \in 1 .. k |-> s[i]], s[k + 1]) = [i \in 1 .. k + 1 |-> s[i]]
  BY OneMore, Zenon
<1>2. [i \in 1 .. 0 |-> s[i]] = <<>>
  OBVIOUS
<1>3. \A i \in 1 .. k : Upto(s, k)[i] = s[i]
  BY DEF Upto
<1> QED
  BY <1>1, <1>2, <1>3, Zenon DEF Upto

(* What a field is written as, with `word` the flags words and m what the  *)
(* values mean: the word itself, nothing where the bit says so, or a value. *)
PartFor(fields, j, out, word, m) ==
    LET field == fields[j]
        meant == m[NumberOf(fields, j)]
        bits == word[field.flags + 1]
    IN  \/ IsFlagsWord(field) /\ out = <<Tok("flags", word[WordsBefore(fields, j) + 1])>>
        \/ IsConditional(field) /\ field.bit \notin bits /\ out = <<>> /\ meant = Absent
        \/ /\ IsConditional(field) /\ field.bit \in bits /\ out = <<>>
           /\ field.ty = "true" /\ meant = Present
        \/ /\ field.ty # "#" /\ field.ty # "true" /\ Encodes(out, field.ty, meant)
           /\ field.flags = NoFlags \/ (IsConditional(field) /\ field.bit \in bits)

LEMMA PartIsSeq ==
    ASSUME NEW fields, NEW j, NEW out, NEW word, NEW m, PartFor(fields, j, out, word, m)
    PROVE  IsSeq(out) /\ Len(out) \in Nat
<1>1. CASE out = <<>>
  BY <1>1, SingleSeq
<1>2. CASE \E e : out = <<e>>
  BY <1>2, SingleSeq
<1>3. CASE \E ty, v : Encodes(out, ty, v)
  <2>1. IsSeq(out)
    BY <1>3, Zenon DEF Encodes
  <2> QED
    BY <2>1, SeqFacts
<1> QED
  BY <1>1, <1>2, <1>3, Zenon DEF PartFor

(* Where a part stands, the reader takes it up.                            *)
LEMMA PartIsRead ==
    ASSUME NEW fields \in Fields, NEW j \in 1 .. Len(fields), NEW out, NEW word, NEW m,
           PartFor(fields, j, out, word, m),
           IsConditional(fields[j]) => fields[j].flags < WordsBefore(fields, j),
           NEW in, NEW p, Stands(in, p, out), NEW d \in 0 .. Len(in), d + p > Len(in),
           NEW words, words = Upto(word, WordsBefore(fields, j)),
           NEW values, values = Upto(m, NumberOf(fields, j - 1))
    PROVE  ReadField(in, Readings(in)[d], Reached(p, words, values), fields[j])
             = Reached(p + Len(out), Upto(word, WordsBefore(fields, j + 1)),
                       Upto(m, NumberOf(fields, j)))
<1> DEFINE field == fields[j]
           inner == Readings(in)[d]
           w == WordsBefore(fields, j)
           n == NumberOf(fields, j - 1)
           end == p + Len(out)
<1>1. /\ w \in Nat /\ n \in Nat /\ field.flags \in Nat
      /\ IF IsFlagsWord(field)
         THEN NumberOf(fields, j) = n /\ WordsBefore(fields, j + 1) = w + 1
         ELSE NumberOf(fields, j) = n + 1 /\ WordsBefore(fields, j + 1) = w
  <2>1. IF IsFlagsWord(field)
        THEN NumberOf(fields, j) = n /\ WordsBefore(fields, j + 1) = w + 1
        ELSE NumberOf(fields, j) = n + 1 /\ WordsBefore(fields, j + 1) = w
    BY Numbering, Zenon
  <2>2. j - 1 \in Nat /\ (j - 1) + 1 = j
    BY DEF Fields
  <2>3. w \in Nat /\ n \in Nat
    <3>1. NumberOf(fields, j - 1) \in Nat /\ WordsBefore(fields, (j - 1) + 1) \in Nat
      BY <2>2, Numbering, Zenon
    <3> QED
      BY <2>2, <3>1, Zenon
  <2>4. field.flags \in Nat
    <3> DEFINE S == [ty : STRING, flags : Nat, bit : Nat]
    <3>1. fields \in Seq(S)
      BY Zenon DEF Fields
    <3> HIDE DEF S
    <3>2. fields[j] \in S
      BY <3>1
    <3> QED
      BY <3>2 DEF S
  <2> QED
    BY <2>1, <2>3, <2>4, Zenon
<1>2. /\ p \in Nat /\ Len(in) \in Nat
      /\ IsConditional(field) => words[field.flags + 1] = word[field.flags + 1]
  <2>1. IsConditional(field) => field.flags + 1 \in 1 .. w
    BY <1>1
  <2>2. p \in Nat /\ Len(in) \in Nat
    BY DEF Stands
  <2>3. \A i \in 1 .. w : words[i] = word[i]
    BY <1>1, UptoGrows
  <2> QED
    BY <2>1, <2>2, <2>3, Zenon
<1>3. /\ Append(words, word[w + 1]) = Upto(word, w + 1)
      /\ Append(values, m[n + 1]) = Upto(m, n + 1)
  BY <1>1, UptoGrows, Zenon
<1>4. Len(<<>>) = 0 /\ p + 0 = p
  BY <1>2
<1>5. CASE IsFlagsWord(field) /\ out = <<Tok("flags", word[w + 1])>>
  <2> DEFINE bits == word[w + 1]
             tok == Tok("flags", bits)
  <2>1. Len(out) = 1 /\ out[1] = tok
    BY <1>5, SingleSeq
  <2>2. p <= Len(in) /\ in[p] = tok /\ end = p + 1
    <3>1. p + 1 <= Len(in) + 1 /\ in[p + 1 - 1] = out[1]
      BY <2>1 DEF Stands
    <3>2. p + 1 - 1 = p
      BY <1>2
    <3> QED
      BY <1>2, <2>1, <3>1, <3>2
  <2>3. field.ty = "#"
    BY <1>5, Zenon DEF IsFlagsWord
  <2> HIDE DEF inner, bits, end, field
  <2>4. ReadField(in, inner, Reached(p, words, values), field)
          = Reached(end, Append(words, bits), values)
    BY <2>2, <2>3, TakesWord
  <2> QED
    BY <1>1, <1>3, <1>5, <2>4, Zenon DEF inner, bits, end, field
<1>6. CASE /\ IsConditional(field) /\ field.bit \notin word[field.flags + 1]
           /\ out = <<>> /\ m[NumberOf(fields, j)] = Absent
  <2>1. /\ field.ty # "#" /\ field.flags # NoFlags /\ field.bit \notin words[field.flags + 1]
        /\ ~IsFlagsWord(field)
    BY <1>2, <1>6, Zenon DEF IsConditional, IsFlagsWord
  <2> HIDE DEF inner, field
  <2>2. ReadField(in, inner, Reached(p, words, values), field)
          = Reached(p, words, Append(values, Absent))
    BY <2>1, LeavesOut
  <2>3. m[n + 1] = Absent /\ p + Len(out) = p
    BY <1>1, <1>4, <1>6, <2>1, Zenon
  <2> QED
    BY <1>1, <1>3, <2>1, <2>2, <2>3, Zenon DEF inner, field
<1>7. CASE /\ IsConditional(field) /\ field.bit \in word[field.flags + 1] /\ out = <<>>
           /\ field.ty = "true" /\ m[NumberOf(fields, j)] = Present
  <2>1. field.bit \in words[field.flags + 1] /\ ~IsFlagsWord(field)
    BY <1>2, <1>7, Zenon DEF IsConditional, IsFlagsWord
  <2> HIDE DEF inner, field
  <2>2. ReadField(in, inner, Reached(p, words, values), field)
          = Reached(p, words, Append(values, Present))
    BY <1>7, <2>1, TakesBit
  <2>3. m[n + 1] = Present /\ p + Len(out) = p
    BY <1>1, <1>4, <1>7, <2>1, Zenon
  <2> QED
    BY <1>1, <1>3, <2>1, <2>2, <2>3, Zenon DEF inner, field
<1>8. CASE /\ field.ty # "#" /\ field.ty # "true"
           /\ Encodes(out, field.ty, m[NumberOf(fields, j)])
           /\ \/ field.flags = NoFlags
              \/ IsConditional(field) /\ field.bit \in word[field.flags + 1]
  <2> DEFINE meant == m[n + 1]
  <2>1. /\ field.flags = NoFlags \/ field.bit \in words[field.flags + 1]
        /\ ~IsFlagsWord(field)
    BY <1>2, <1>8, Zenon DEF IsFlagsWord
  <2>2. Encodes(out, field.ty, meant)
    BY <1>1, <1>8, <2>1, Zenon
  <2>3. inner[p][field.ty] = Found(meant, end)
    BY <2>2, Zenon DEF Encodes
  <2>4. p <= Len(in)
    <3>1. Len(out) >= 1 /\ Len(out) \in Nat
      BY <2>2, SeqFacts DEF Encodes
    <3> QED
      BY <1>2, <3>1 DEF Stands
  <2> HIDE DEF inner, meant, end, field
  <2>5. ReadField(in, inner, Reached(p, words, values), field)
          = Reached(end, words, Append(values, meant))
    BY <1>8, <2>1, <2>3, <2>4, TakesValue
  <2> QED
    BY <1>1, <1>3, <2>1, <2>5, Zenon DEF inner, meant, end, field
<1> QED
  BY <1>5, <1>6, <1>7, <1>8, Zenon DEF PartFor

(* Fields and their parts: where the parts stand in a row, the reader gets *)
(* every field's meaning.                                                  *)
PartsFor(fields, outs, word, m) ==
    /\ fields \in Fields /\ IsSeq(outs) /\ Len(outs) = Len(fields)
    /\ \A j \in 1 .. Len(fields) :
          /\ PartFor(fields, j, outs[j], word, m)
          /\ IsConditional(fields[j]) => fields[j].flags < WordsBefore(fields, j)

LEMMA PartsAreRead ==
    ASSUME NEW fields, NEW outs, NEW word, NEW m, PartsFor(fields, outs, word, m),
           NEW in, NEW at, Stands(in, at, FlattenSeq(outs)),
           NEW d \in 0 .. Len(in), d + at > Len(in)
    PROVE  ReadFields(in, Readings(in)[d], at, fields)
             = Reached(at + Len(FlattenSeq(outs)), Upto(word, WordsBefore(fields, Len(fields) + 1)),
                       Upto(m, NumberOf(fields, Len(fields))))
<1> DEFINE n == Len(fields)
           place(j) == at + PartsLength(outs, j)
           words(j) == Upto(word, WordsBefore(fields, j + 1))
           values(j) == Upto(m, NumberOf(fields, j))
           K == [j \in 0 .. n |-> Reached(place(j), words(j), values(j))]
<1>0. /\ fields \in Fields /\ IsSeq(outs) /\ Len(outs) = n
      /\ \A j \in 1 .. n :
            /\ PartFor(fields, j, outs[j], word, m)
            /\ IsConditional(fields[j]) => fields[j].flags < WordsBefore(fields, j)
  BY Zenon DEF PartsFor
<1>1. n \in Nat /\ at \in Nat /\ Len(in) \in Nat
  BY <1>0 DEF Stands, Fields
<1>2. \A k \in 1 .. n : IsSeq(outs[k])
  BY <1>0, PartIsSeq, Zenon
<1>3. /\ PartsLength(outs, 0) = 0 /\ PartsLength(outs, n) = Len(FlattenSeq(outs))
      /\ \A k \in 0 .. n : PartsLength(outs, k) \in Nat
      /\ \A k \in 1 .. n : /\ Len(outs[k]) \in Nat
                           /\ PartsLength(outs, k) = PartsLength(outs, k - 1) + Len(outs[k])
                           /\ Stands(in, at + PartsLength(outs, k - 1), outs[k])
  <2>1. /\ PartsLength(outs, 0) = 0 /\ PartsLength(outs, Len(outs)) = Len(FlattenSeq(outs))
        /\ \A k \in 0 .. Len(outs) : PartsLength(outs, k) \in Nat
        /\ \A k \in 1 .. Len(outs) :
              /\ Len(outs[k]) \in Nat
              /\ PartsLength(outs, k) = PartsLength(outs, k - 1) + Len(outs[k])
              /\ Stands(in, at + PartsLength(outs, k - 1), outs[k])
    BY <1>0, <1>2, PartsStand
  <2> QED
    BY <1>0, <2>1, Zenon
<1>4. /\ \A j \in 0 .. n : K[j] = Reached(place(j), words(j), values(j))
      /\ K[0] = Reached(at, <<>>, <<>>)
  <2>1. \A j \in 0 .. n : K[j] = Reached(place(j), words(j), values(j))
    BY DEF K
  <2>2. place(0) = at
    BY <1>1, <1>3
  <2>3. words(0) = <<>> /\ values(0) = <<>>
    <3>1. NumberOf(fields, 0) = 0 /\ WordsBefore(fields, 1) = 0 /\ 0 + 1 = 1
      BY <1>0, Numbering
    <3>2. Upto(m, 0) = <<>> /\ Upto(word, 0) = <<>>
      BY UptoGrows
    <3> QED
      BY <3>1, <3>2, Zenon
  <2>4. 0 \in 0 .. n
    BY <1>1
  <2> HIDE DEF K
  <2> QED
    BY <2>1, <2>2, <2>3, <2>4, Zenon
<1> HIDE DEF K
<1>5. ASSUME NEW j \in 1 .. n
      PROVE  K[j] = ReadField(in, Readings(in)[d], K[j - 1], fields[j])
  <2> DEFINE p == place(j - 1)
  <2>1. /\ j \in 0 .. n /\ j - 1 \in 0 .. n /\ (j - 1) + 1 = j
    BY <1>1
  <2>2. Stands(in, p, outs[j]) /\ place(j) = p + Len(outs[j]) /\ d + p > Len(in)
    <3>1. /\ Stands(in, p, outs[j]) /\ PartsLength(outs, j - 1) \in Nat /\ Len(outs[j]) \in Nat
          /\ PartsLength(outs, j) = PartsLength(outs, j - 1) + Len(outs[j])
      BY <1>3, <2>1, Zenon
    <3> QED
      BY <1>1, <3>1
  <2> HIDE DEF p
  <2>3. ReadField(in, Readings(in)[d],
                  Reached(p, Upto(word, WordsBefore(fields, j)), values(j - 1)), fields[j])
          = Reached(p + Len(outs[j]), words(j), values(j))
    <3>1. /\ PartFor(fields, j, outs[j], word, m)
          /\ IsConditional(fields[j]) => fields[j].flags < WordsBefore(fields, j)
          /\ Stands(in, p, outs[j]) /\ d + p > Len(in)
      BY <1>0, <2>2
    <3> DEFINE before == Upto(word, WordsBefore(fields, j))
               given == values(j - 1)
    <3>2. before = Upto(word, WordsBefore(fields, j)) /\ given = Upto(m, NumberOf(fields, j - 1))
      OBVIOUS
    <3> HIDE DEF before, given
    <3>3. ReadField(in, Readings(in)[d], Reached(p, before, given), fields[j])
            = Reached(p + Len(outs[j]), words(j), values(j))
      BY <1>0, <3>1, <3>2, PartIsRead
    <3> QED
      BY <3>2, <3>3, Zenon
  <2>4. /\ K[j] = Reached(place(j), words(j), values(j))
        /\ K[j - 1] = Reached(place(j - 1), words(j - 1), values(j - 1))
    BY <1>4, <2>1, Zenon
  <2> QED
    BY <2>1, <2>2, <2>3, <2>4, Zenon DEF p
<1>6. ReadFields(in, Readings(in)[d], at, fields) = K[n]
  <2>1. Len(fields) \in Nat /\ K[0] = Reached(at, <<>>, <<>>)
    BY <1>1, <1>4
  <2>2. \A j \in 1 .. Len(fields) : K[j] = ReadField(in, Readings(in)[d], K[j - 1], fields[j])
    BY <1>5
  <2> QED
    BY <2>1, <2>2, FieldsRead
<1>7. K[n] = Reached(at + Len(FlattenSeq(outs)), words(n), values(n))
  <2>1. n \in 0 .. n
    BY <1>1
  <2> QED
    BY <1>3, <1>4, <2>1, Zenon
<1> QED
  BY <1>6, <1>7, Zenon

(* Where fields with one bit agree, a bit tells of each of them.           *)
LEMMA BitIsSet ==
    ASSUME NEW o \in Objects, o.id \in DOMAIN Schema, SharedBitsAgree(o),
           NEW j \in DOMAIN Schema[o.id], IsConditional(Schema[o.id][j])
    PROVE  Schema[o.id][j].bit \in Flags(Schema[o.id], o.values, Schema[o.id][j].flags)
             <=> Sets(Schema[o.id], o.values, j)
<1> DEFINE fields == Schema[o.id]
           flags == fields[j].flags
<1>1. ASSUME fields[j].bit \in Flags(fields, o.values, flags) PROVE Sets(fields, o.values, j)
  <2>1. PICK i \in DOMAIN fields : /\ fields[i].flags = flags /\ Sets(fields, o.values, i)
                                   /\ fields[i].bit = fields[j].bit
    BY <1>1 DEF Flags
  <2>2. IsConditional(fields[i])
    BY <2>1, Zenon DEF Sets
  <2> QED
    BY <2>1, <2>2 DEF SharedBitsAgree
<1>2. ASSUME Sets(fields, o.values, j) PROVE fields[j].bit \in Flags(fields, o.values, flags)
  BY <1>2 DEF Flags
<1> QED
  BY <1>1, <1>2

(* Every value means what its field is read as.                            *)
LEMMA FieldMeans ==
    ASSUME NEW o \in Objects, o.id \in DOMAIN Schema, NEW j \in 1 .. Len(Schema[o.id]),
           ~IsFlagsWord(Schema[o.id][j])
    PROVE  /\ NumberOf(Schema[o.id], j) \in 1 .. NumberOf(Schema[o.id], Len(Schema[o.id]))
           /\ MeaningOf(Meant, o).fields[NumberOf(Schema[o.id], j)]
                = Meaning(Meant, Schema[o.id][j].ty, ValueOf(o, j))
<1> DEFINE fields == Schema[o.id]
           n == NumberOf(fields, j)
           value == ValueOf(o, j)
           m == [k \in 1 .. NumberOf(fields, Len(fields)) |->
                   IF k \in DOMAIN o.values
                   THEN Meaning(Meant, fields[FieldNumbered(fields, k)].ty, o.values[k])
                   ELSE Absent]
<1>1. n \in 1 .. NumberOf(fields, Len(fields)) /\ FieldNumbered(fields, n) = j
  <2>1. fields \in Fields
    BY SchemaFields
  <2> QED
    BY <2>1, Numbering, Zenon
<1>2. MeaningOf(Meant, o).fields = m
  <2>1. MeaningOf(Meant, o) = Node(o.id, m)
    BY Zenon DEF MeaningOf
  <2> HIDE DEF m
  <2> QED
    BY <2>1 DEF Node
<1>3. m[n] = Meaning(Meant, fields[j].ty, value)
  <2>1. CASE n \in DOMAIN o.values
    <3>1. value = o.values[n]
      BY <2>1, Zenon DEF ValueOf, Value
    <3>2. m[n] = Meaning(Meant, fields[FieldNumbered(fields, n)].ty, o.values[n])
      <4> HIDE DEF n
      <4> QED
        BY <1>1, <2>1
    <3> QED
      BY <1>1, <3>1, <3>2, Zenon
  <2>2. CASE n \notin DOMAIN o.values
    <3>1. value = Skip
      BY <2>2, Zenon DEF ValueOf, Value
    <3>2. Meaning(Meant, fields[j].ty, Skip) = Absent
      BY DEF Meaning, Skip
    <3>3. m[n] = Absent
      <4> HIDE DEF n
      <4> QED
        BY <1>1, <2>2
    <3> QED
      BY <3>1, <3>2, <3>3, Zenon
  <2> QED
    BY <2>1, <2>2
<1> HIDE DEF m
<1> QED
  BY <1>1, <1>2, <1>3, Zenon

NestedEncode(o) ==
    \A inner \in NestedIn(o) : Serialize[inner].ok =>
       \A t \in Types : IsBoxed(t) => Encodes(Serialize[inner].out, t, Meant[inner])

Words(o) == [w \in Nat |-> Flags(Schema[o.id], o.values, w - 1)]

LEMMA FieldIsPart ==
    ASSUME NEW o \in Objects, SharedBitsAgree(o), Serialize[o].ok, NestedEncode(o),
           NEW j \in 1 .. Len(Schema[o.id])
    PROVE  PartFor(Schema[o.id], j, FieldIs(o, j).out, Words(o), MeaningOf(Meant, o).fields)
<1> DEFINE fields == Schema[o.id]
           field == fields[j]
           n == NumberOf(fields, j)
           value == ValueOf(o, j)
           out == FieldIs(o, j).out
           word == Words(o)
           m == MeaningOf(Meant, o).fields
<1>1. o.id \in DOMAIN Schema /\ j \in DOMAIN fields /\ FieldIs(o, j).ok
  <2>1. o.id \in DOMAIN Schema /\ \A i \in DOMAIN fields : FieldIs(o, i).ok
    BY OutputIs
  <2>2. j \in DOMAIN fields
    BY <2>1, SchemaFields
  <2> QED
    BY <2>1, <2>2
<1>2. /\ field.flags \in Nat
      /\ IsFlagsWord(field) => field.flags = WordsBefore(fields, j)
      /\ field.ty = "true" => IsConditional(field)
      /\ IsBare(field) <=> field.ty = "true"
  <2>1. field \in [ty : STRING, flags : Nat, bit : Nat]
    BY <1>1, SchemaFields
  <2>2. field.flags \in Nat
    BY <2>1
  <2> QED
    BY <1>1, <2>2, SchemaFields, FieldCases
<1>3. word[field.flags + 1] = Flags(fields, o.values, field.flags)
  <2>1. field.flags + 1 \in Nat /\ (field.flags + 1) - 1 = field.flags
    BY <1>2
  <2> QED
    BY <2>1 DEF Words
<1>4. IsConditional(field) =>
         (field.bit \in word[field.flags + 1] <=> Sets(fields, o.values, j))
  BY <1>1, <1>3, BitIsSet
<1>5. ~IsFlagsWord(field) => m[n] = Meaning(Meant, field.ty, value)
  BY <1>1, FieldMeans
<1>6. CASE IsFlagsWord(field)
  <2>1. FieldIs(o, j) = Written(<<Tok("flags", Flags(fields, o.values, field.flags))>>)
    BY <1>1, <1>6, FieldCases, Zenon
  <2>2. out = <<Tok("flags", word[WordsBefore(fields, j) + 1])>>
    BY <1>2, <1>3, <1>6, <2>1 DEF Written
  <2> QED
    BY <1>6, <2>2, Zenon DEF PartFor
<1>7. CASE ~IsFlagsWord(field) /\ FieldOk(o, j)
  <2>1. out = <<>>
    <3>1. FieldIs(o, j) = Written(<<>>)
      BY <1>1, <1>7, FieldCases, Zenon
    <3> QED
      BY <3>1 DEF Written
  <2>2. IsConditional(field)
    BY <1>2, <1>7, Zenon DEF FieldOk
  <2>3. CASE Sets(fields, o.values, j)
    <3>1. IsBare(field) /\ value = True
      BY <1>7, <2>3, Zenon DEF FieldOk, Sets, ValueOf
    <3>2. m[n] = Present
      <4>1. Meaning(Meant, field.ty, True) = Present
        BY DEF Meaning, True
      <4> QED
        BY <1>5, <1>7, <3>1, <4>1, Zenon
    <3> QED
      BY <1>2, <1>4, <2>1, <2>2, <2>3, <3>1, <3>2, Zenon DEF PartFor
  <2>4. CASE ~Sets(fields, o.values, j)
    <3>1. value = Skip \/ value = False
      <4>1. CASE IsBare(field)
        <5>1. FitsField(field, value) /\ value # True
          BY <1>1, <1>7, <2>2, <2>4, <4>1, FieldFits DEF Sets, ValueOf
        <5> QED
          BY <1>2, <4>1, <5>1 DEF FitsField
      <4>2. CASE ~IsBare(field)
        BY <1>7, <4>2, Zenon DEF FieldOk
      <4> QED
        BY <4>1, <4>2
    <3>2. m[n] = Absent
      <4>1. Meaning(Meant, field.ty, Skip) = Absent /\ Meaning(Meant, field.ty, False) = Absent
        BY DEF Meaning, Skip, False
      <4> QED
        BY <1>5, <1>7, <3>1, <4>1, Zenon
    <3> QED
      BY <1>4, <2>1, <2>2, <2>4, <3>2, Zenon DEF PartFor
  <2> QED
    BY <2>3, <2>4
<1>8. CASE ~FieldOk(o, j)
  <2>1. ~IsFlagsWord(field) /\ field.ty # "true" /\ field.ty # "#" /\ ~IsBare(field)
    BY <1>2, <1>8, Zenon DEF FieldOk, IsFlagsWord
  <2>2. FieldIs(o, j) = WriteValue(Serialize, field.ty, value)
    BY <1>1, <1>8, FieldCases
  <2>3. value # Skip
    BY <1>1, <2>2, SkipIsRefused
  <2>4. FitsType(field.ty, value)
    BY <1>1, <1>8, <2>3, FieldCases
  <2>5. n \in DOMAIN o.values /\ value = o.values[n]
    BY <1>1, <2>1, <2>3, FieldFits
  <2>6. ASSUME value.kind = "Boxed"
        PROVE  \A t \in Types : IsBoxed(t) =>
                  Encodes(Serialize[value.object].out, t, Meant[value.object])
    <3>1. value.object \in NestedIn(o)
      BY <2>5, <2>6, ValueIsNested, Zenon
    <3>2. FieldIs(o, j) = Serialize[value.object]
      BY <2>2, <2>4, <2>6, FittingIsWritten
    <3> QED
      BY <1>1, <3>1, <3>2, Zenon DEF NestedEncode
  <2>7. field.ty \in Types
    BY <1>1, SchemaTypes
  <2>8. Encodes(out, field.ty, m[n])
    <3>1. Encodes(WriteValue(Serialize, field.ty, value).out, field.ty,
                  Meaning(Meant, field.ty, value))
      BY <2>4, <2>6, <2>7, ValueEncodes
    <3> QED
      BY <1>5, <2>1, <2>2, <3>1, Zenon
  <2>9. field.flags = NoFlags \/ (IsConditional(field) /\ field.bit \in word[field.flags + 1])
    <3>1. field.flags # NoFlags => IsConditional(field)
      BY <2>1, Zenon DEF IsConditional
    <3>2. IsConditional(field) => Sets(fields, o.values, j)
      BY <2>1, <2>3, Zenon DEF Sets, ValueOf
    <3> QED
      BY <1>4, <3>1, <3>2, Zenon
  <2> QED
    BY <2>1, <2>8, <2>9, Zenon DEF PartFor
<1> QED
  BY <1>6, <1>7, <1>8

(* An object reads back if the objects in it do.                           *)
LEMMA ObjectReadsBack ==
    ASSUME NEW o \in Objects, SharedBitsAgree(o), Serialize[o].ok, NestedEncode(o),
           NEW ty \in Types, IsBoxed(ty)
    PROVE  Encodes(Serialize[o].out, ty, Meant[o])
<1> DEFINE id == o.id
           fields == Schema[id]
           outs == [j \in DOMAIN fields |-> FieldIs(o, j).out]
           rest == FlattenSeq(outs)
           tok == Tok("id", id)
           out == <<tok>> \o rest
           m == MeaningOf(Meant, o).fields
           total == NumberOf(fields, Len(fields))
<1>1. id \in DOMAIN Schema /\ Serialize[o].out = out
  BY OutputIs
<1>2. /\ fields \in Fields /\ Len(fields) \in Nat /\ DOMAIN fields = 1 .. Len(fields)
      /\ \A j \in 1 .. Len(fields) :
            IsConditional(fields[j]) => fields[j].flags < WordsBefore(fields, j)
  BY <1>1, SchemaFields
<1>3. Meant[o] = Node(id, m) /\ Upto(m, total) = m
  <2> DEFINE s == [k \in 1 .. total |->
                     IF k \in DOMAIN o.values
                     THEN Meaning(Meant, fields[FieldNumbered(fields, k)].ty, o.values[k])
                     ELSE Absent]
  <2>1. MeaningOf(Meant, o) = Node(id, s) /\ Meant[o] = MeaningOf(Meant, o)
    BY MeantIs, Zenon DEF MeaningOf
  <2>2. [k \in 1 .. total |-> s[k]] = s
    OBVIOUS
  <2> HIDE DEF s
  <2>3. m = s
    BY <2>1 DEF Node
  <2> HIDE DEF m
  <2> QED
    BY <2>1, <2>2, <2>3, Zenon DEF Upto
<1>4. ASSUME NEW j \in 1 .. Len(fields)
      PROVE  outs[j] = FieldIs(o, j).out /\ PartFor(fields, j, outs[j], Words(o), m)
  <2>1. outs[j] = FieldIs(o, j).out
    BY <1>2
  <2>2. PartFor(fields, j, FieldIs(o, j).out, Words(o), m)
    BY FieldIsPart
  <2> QED
    BY <2>1, <2>2, Zenon
<1>5. IsSeq(outs) /\ Len(outs) = Len(fields)
  <2>1. outs \in Seq({FieldIs(o, j).out : j \in 1 .. Len(fields)}) /\ Len(outs) = Len(fields)
    BY <1>2
  <2> QED
    BY <2>1 DEF IsSeq
<1> HIDE DEF outs
<1>6. IsSeq(rest)
  <2>1. \A j \in 1 .. Len(outs) : IsSeq(outs[j])
    BY <1>4, <1>5, PartIsSeq
  <2> QED
    BY <1>5, <2>1, PartsStand
<1> HIDE DEF rest, m, total, tok
<1>7. IsSeq(out) /\ Len(out) = Len(rest) + 1 /\ Len(rest) \in Nat
  BY <1>6, SingleSeq, Concatenated
<1>8. ASSUME NEW in, NEW at, NEW d, Stands(in, at, out), d \in 0 .. Len(in), d + at > Len(in)
      PROVE  Readings(in)[d][at][ty] = Found(Node(id, m), at + Len(out))
  <2>1. Len(in) \in Nat
    BY <1>8, Zenon DEF Stands
  <2>2. at \in 1 .. Len(in) /\ in[at] = tok /\ Stands(in, at + 1, rest)
    BY <1>6, <1>8, FirstStands
  <2> DEFINE e == d - 1
             next == at + 1
             end == next + Len(rest)
  <2>3. e \in 0 .. Len(in) /\ e + next > Len(in)
    BY <1>8, <2>1, <2>2, ReadsThere
  <2> DEFINE words == Upto(Words(o), WordsBefore(fields, Len(fields) + 1))
  <2>4. ReadFields(in, Readings(in)[e], next, fields) = Reached(end, words, m)
    <3> HIDE DEF e, next, fields
    <3>1. Stands(in, next, FlattenSeq(outs))
      BY <2>2 DEF rest, next
    <3>2. PartsFor(fields, outs, Words(o), m)
      BY <1>2, <1>4, <1>5 DEF PartsFor
    <3>3. ReadFields(in, Readings(in)[e], next, fields)
            = Reached(next + Len(FlattenSeq(outs)), words, Upto(m, total))
      BY <2>3, <3>1, <3>2, PartsAreRead DEF total
    <3> QED
      BY <1>3, <3>3, Zenon DEF rest
  <2> HIDE DEF end, words
  <2>5. id \in DOMAIN Schema /\ in[at] = Tok("id", id)
    BY <1>1, <2>2 DEF tok
  <2>6. Readings(in)[d][at][ty] = Found(Node(id, m), end)
    <3>1. d \in 0 .. Len(in) /\ d + at > Len(in) /\ at \in 1 .. Len(in)
      BY <1>8, <2>2
    <3> HIDE DEF id
    <3> QED
      BY <2>1, <2>4, <2>5, <3>1, ObjectIsRead
  <2>7. end = at + Len(out)
    BY <1>7, <2>2 DEF end
  <2> QED
    BY <2>6, <2>7, Zenon
<1>9. Len(out) >= 1
  BY <1>7
<1>10. Encodes(out, ty, Node(id, m))
  BY <1>7, <1>8, <1>9, Zenon DEF Encodes
<1> QED
  BY <1>1, <1>3, <1>10, Zenon

(* So they all do, the innermost first.                                    *)
LEMMA ObjectsReadBack ==
    ASSUME \A o \in Objects : SharedBitsAgree(o)
    PROVE  \A o \in Objects : Serialize[o].ok =>
              \A ty \in Types : IsBoxed(ty) => Encodes(Serialize[o].out, ty, Meant[o])
<1> DEFINE Back(o) == Serialize[o].ok =>
                        \A ty \in Types : IsBoxed(ty) => Encodes(Serialize[o].out, ty, Meant[o])
           T == {n \in Nat : \A o \in Shallower(n) : Back(o)}
<1>1. 0 \in T
  BY Levels
<1>2. ASSUME NEW n \in Nat, n \in T PROVE n + 1 \in T
  <2>1. ASSUME NEW o \in Shallower(n + 1) PROVE Back(o)
    <3>1. o \in Objects
      BY <2>1 DEF Shallower
    <3>2. NestedEncode(o)
      <4>1. NestedIn(o) \subseteq Shallower(n)
        BY Levels
      <4> QED
        BY <1>2, <4>1 DEF NestedEncode
    <3> QED
      BY <3>1, <3>2, ObjectReadsBack
  <2> HIDE DEF Back
  <2> QED
    BY <2>1
<1>3. Nat \subseteq T
  <2> HIDE DEF T
  <2> QED
    BY <1>1, <1>2, Induction, Zenon
<1> HIDE DEF Back
<1>4. \A o \in Objects : Back(o)
  BY <1>3, Levels
<1> QED
  BY <1>4 DEF Back

(* What serialize writes reads back, by TL's rules, as the method and the  *)
(* values the caller meant and nothing else, in every schema and at every  *)
(* depth.  Where two fields share a bit they have to be given together:    *)
(* otherwise the one that is left out is announced all the same.           *)
THEOREM RequestsReadBack ==
    (\A o \in Objects : SharedBitsAgree(o)) => (SerializerSpec => []ReadsBack)
<1>1. ASSUME \A o \in Objects : SharedBitsAgree(o)
      PROVE  SerializerIInv => ReadsBack
  <2> DEFINE o == request
             out == written[1].out
             n == Len(out)
             ty == "Object"
  <2>1. SUFFICES ASSUME SerializerIInv, written # <<>>, written[1].ok PROVE ReadsBack
    BY DEF ReadsBack
  <2>2. o \in Objects /\ written[1] = Serialize[o]
    BY <2>1 DEF SerializerIInv
  <2>3. ty \in Types /\ IsBoxed(ty)
    <3>1. ~IsVector(ty)
      BY KnownObjectsAssumption
    <3> QED
      BY <3>1, SchemaTypes DEF IsBoxed, IsScalar
  <2>4. Encodes(out, ty, Meant[o])
    BY <1>1, <2>1, <2>2, <2>3, ObjectsReadBack
  <2>5. IsSeq(out) /\ n \in Nat /\ n >= 1
    BY <2>4, SeqFacts DEF Encodes
  <2>6. Stands(out, 1, out) /\ n \in 0 .. n /\ n + 1 > n /\ 1 + n = n + 1
    <3>1. \A i \in 1 .. n : 1 + i - 1 = i
      OBVIOUS
    <3> HIDE DEF out
    <3> QED
      BY <2>5, <3>1 DEF Stands
  <2> HIDE DEF out, o
  <2>7. Readings(out)[n][1][ty] = Found(Meant[o], 1 + n)
    BY <2>4, <2>6, Zenon DEF Encodes
  <2>8. ReadWhole(out) = Found(Meant[o], n + 1)
    BY <2>6, <2>7, Zenon DEF ReadWhole
  <2> QED
    BY <2>8, Zenon DEF ReadsBack, out, o
<1>2. SUFFICES ASSUME \A o \in Objects : SharedBitsAgree(o)
               PROVE  SerializerSpec => []ReadsBack
  OBVIOUS
<1>3. SerializerIInv => ReadsBack
  BY <1>1, <1>2
<1> QED
  BY <1>3, SerializerInvariant, PTL
===============================================================================
