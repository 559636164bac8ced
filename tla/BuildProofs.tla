------------------------------ MODULE BuildProofs ------------------------------
(***************************************************************************)
(* The generator, for all schema files, and the configuration, for all     *)
(* lists of namespaces.                                                    *)
(*                                                                         *)
(* The invariant of the generator relates its tables to the text it has    *)
(* read: every entry of a namespace records a declaration of it, every     *)
(* declaration has its entry, and a namespace is gated when one of its     *)
(* declarations is not from core.tl.  What the searches find in the        *)
(* written tables then follows from what sorting and partition_point do.   *)
(*                                                                         *)
(* The invariant of the configuration says what the switches and the       *)
(* overrides mean in terms of the lines read, and what was selected and    *)
(* linked; the set of linked features is closed under what the manifest    *)
(* implies, since no chain of implications is longer than the three steps  *)
(* of Closure.                                                             *)
(***************************************************************************)
EXTENDS BuildProfile, SchemaGenerator, FiniteSetTheorems, SequenceTheorems, TLAPS

LEMMA LeastNatural ==
    ASSUME NEW S \in SUBSET Nat, S # {}
    PROVE  \E n \in S : \A m \in S : n <= m
  <1> DEFINE R == OpToRel(<, Nat)
  <1>1. IsWellFoundedOn(R, Nat)
        BY NatLessThanWellFounded, Zenon
  <1>2. \A x, y \in Nat : y < x => <<y, x>> \in R
        BY DEF OpToRel
  <1> HIDE DEF R
  <1>3. PICK x \in S : \A y \in S : ~ (<<y, x>> \in R)
        BY <1>1, WFMin, Zenon
  <1>4. \A y \in S : ~ (y < x)
        BY <1>2, <1>3
  <1>5. x \in Nat /\ \A y \in S : y \in Nat
        OBVIOUS
  <1>6. \A y \in S : x <= y
        BY <1>4, <1>5, SMT
  <1> QED
      BY <1>6, Zenon

(* partition_point finds the first entry that is not before what is sought.*)
LEMMA PartitionPointIs ==
    ASSUME NEW n \in Nat, NEW table, DOMAIN table = 1 .. n, NEW before
    PROVE  /\ PartitionPoint(table, before) \in 1 .. n + 1
           /\ \A j \in 1 .. n : j < PartitionPoint(table, before) => j \in before
           /\ PartitionPoint(table, before) <= n => PartitionPoint(table, before) \notin before
  <1> DEFINE ahead == {i \in 1 .. n : 1 .. i \subseteq before}
             stops == {i \in 1 .. n : i \notin before} \cup {n + 1}
  <1>2. PartitionPoint(table, before) = Cardinality(ahead) + 1
        BY DEF PartitionPoint
  <1>3. PICK m \in stops : \A i \in stops : m <= i
    <2>1. stops \in SUBSET Nat /\ stops # {}
          OBVIOUS
    <2> QED
        BY <2>1, LeastNatural, Zenon
  <1>4. m \in 1 .. n + 1 /\ \A j \in 1 .. n : j < m => j \in before
    <2>1. n + 1 \in stops /\ \A j \in 1 .. n : j \notin before => j \in stops
          OBVIOUS
    <2> QED
        BY <1>3, <2>1
  <1>5. m <= n => m \notin before
        BY <1>3
  <1>6. ahead = 1 .. m - 1
    <2>1. ASSUME NEW i \in ahead PROVE i \in 1 .. m - 1
          BY <1>4, <1>5
    <2>2. ASSUME NEW i \in 1 .. m - 1 PROVE i \in ahead
          BY <1>4
    <2> QED
        BY <2>1, <2>2
  <1> HIDE DEF ahead, stops
  <1>7. Cardinality(1 .. m - 1) = m - 1
    <2>1. Cardinality(1 .. m - 1) = IF 1 > m - 1 THEN 0 ELSE (m - 1) - 1 + 1
          BY <1>4, FS_Interval
    <2> QED
        BY <1>4, <2>1
  <1>8. PartitionPoint(table, before) = m
        BY <1>2, <1>4, <1>6, <1>7
  <1> QED
      BY <1>4, <1>5, <1>8

-----------------------------------------------------------------------------
(* Sorting.                                                                *)
Weak(chosen, before) ==
    /\ \A i \in chosen : <<i, i>> \notin before
    /\ \A i, j, k \in chosen :
          <<i, j>> \in before /\ <<j, k>> \in before => <<i, k>> \in before
    /\ \A i, j, k \in chosen :
          <<i, k>> \in before => <<i, j>> \in before \/ <<j, k>> \in before

LEMMA Ranks ==
    ASSUME NEW chosen, IsFiniteSet(chosen), chosen \subseteq Nat,
           NEW before, Weak(chosen, before)
    PROVE  /\ Cardinality(chosen) \in Nat
           /\ \A i \in chosen : Rank(chosen, before, i) \in 0 .. Cardinality(chosen) - 1
           /\ \A i, j \in chosen :
                 <<i, j>> \in before =>
                    Rank(chosen, before, i) < Rank(chosen, before, j)
           /\ \A i, j \in chosen :
                 Rank(chosen, before, i) = Rank(chosen, before, j) => i = j
  <1> DEFINE first(i, j) == <<i, j>> \in before \/ (i < j /\ <<j, i>> \notin before)
             ahead(i) == {j \in chosen : first(j, i)}
  <1>1. \A i \in chosen : Rank(chosen, before, i) = Cardinality(ahead(i))
        BY DEF Rank
  <1>2. \A i \in chosen : i \in Nat
        OBVIOUS
  <1>3. \A i \in chosen : ~first(i, i)
    <2>1. \A i \in chosen : ~(i < i)
          BY <1>2
    <2>2. \A i \in chosen : <<i, i>> \notin before
          BY Zenon DEF Weak
    <2> QED
        BY <2>1, <2>2, Zenon
  <1>4. \A i, j \in chosen : i = j \/ first(i, j) \/ first(j, i)
    <2>1. \A i, j \in chosen : i = j \/ i < j \/ j < i
          BY <1>2
    <2> QED
        BY <2>1, Zenon
  <1>5. \A i, j, k \in chosen : first(i, j) /\ first(j, k) => first(i, k)
    <2> SUFFICES ASSUME NEW i \in chosen, NEW j \in chosen, NEW k \in chosen,
                        first(i, j), first(j, k)
                 PROVE  first(i, k)
        OBVIOUS
    <2>1. i < j /\ j < k => i < k
          BY <1>2
    <2> QED
        BY <2>1 DEF Weak
  <1> HIDE DEF first
  <1>6. ASSUME NEW i \in chosen
        PROVE  /\ IsFiniteSet(ahead(i)) /\ Cardinality(ahead(i)) \in Nat
               /\ Cardinality(ahead(i)) <= Cardinality(chosen) - 1
    <2>1. ahead(i) \in SUBSET (chosen \ {i})
          BY <1>3
    <2>2. IsFiniteSet(chosen \ {i}) /\ Cardinality(chosen \ {i}) = Cardinality(chosen) - 1
          BY FS_RemoveElement
    <2> HIDE DEF ahead
    <2>3. IsFiniteSet(ahead(i)) /\ Cardinality(ahead(i)) <= Cardinality(chosen \ {i})
          BY <2>1, <2>2, FS_Subset
    <2> QED
        BY <2>2, <2>3, FS_CardinalityType
  <1>7. ASSUME NEW i \in chosen, NEW j \in chosen, first(i, j)
        PROVE  Cardinality(ahead(i)) < Cardinality(ahead(j))
    <2>1. ahead(i) \in SUBSET ahead(j) /\ i \in ahead(j) /\ i \notin ahead(i)
          BY <1>3, <1>5, <1>7
    <2> HIDE DEF ahead
    <2>2. /\ Cardinality(ahead(i)) <= Cardinality(ahead(j))
          /\ Cardinality(ahead(j)) = Cardinality(ahead(i)) => ahead(j) = ahead(i)
          BY <1>6, <2>1, FS_Subset
    <2>3. Cardinality(ahead(i)) \in Nat /\ Cardinality(ahead(j)) \in Nat
          BY <1>6
    <2> QED
        BY <2>1, <2>2, <2>3
  <1>8. Cardinality(chosen) \in Nat
        BY FS_CardinalityType
  <1>9. \A i, j \in chosen : <<i, j>> \in before => first(i, j)
        BY DEF first
  <1> HIDE DEF ahead
  <1>10. \A i \in chosen : Rank(chosen, before, i) \in 0 .. Cardinality(chosen) - 1
         BY <1>1, <1>6, <1>8
  <1>11. \A i, j \in chosen : first(i, j) =>
            Rank(chosen, before, i) < Rank(chosen, before, j)
         BY <1>1, <1>7
  <1>12. \A i, j \in chosen :
            Rank(chosen, before, i) = Rank(chosen, before, j) => i = j
    <2> SUFFICES ASSUME NEW i \in chosen, NEW j \in chosen, i # j
                 PROVE  Rank(chosen, before, i) # Rank(chosen, before, j)
        OBVIOUS
    <2>1. Rank(chosen, before, i) \in Int /\ Rank(chosen, before, j) \in Int
          BY <1>10
    <2> QED
        BY <1>4, <1>11, <2>1
  <1> QED
      BY <1>8, <1>9, <1>10, <1>11, <1>12

Arranges(r, s, chosen, before) ==
    /\ DOMAIN r = 1 .. Cardinality(chosen)
    /\ \E place \in [1 .. Cardinality(chosen) -> chosen] :
          /\ \A k \in DOMAIN place : r[k] = s[place[k]]
          /\ \A i \in chosen : \E k \in DOMAIN place : place[k] = i
          /\ \A k, l \in DOMAIN place : k < l => <<place[l], place[k]>> \notin before

(* The sorted sequence has the chosen entries, each once and in order.     *)
LEMMA SortedIs ==
    ASSUME NEW s, NEW chosen, IsFiniteSet(chosen), chosen \subseteq Nat,
           NEW before, Weak(chosen, before)
    PROVE  /\ Cardinality(chosen) \in Nat
           /\ Arranges(Sorted(s, chosen, before), s, chosen, before)
  <1> DEFINE n == Cardinality(chosen)
             rank(i) == Rank(chosen, before, i)
             at(k) == CHOOSE i \in chosen : rank(i) = k - 1
             place == [k \in 1 .. n |-> at(k)]
  <1>1. /\ n \in Nat
        /\ \A i \in chosen : rank(i) \in 0 .. n - 1
        /\ \A i, j \in chosen : <<i, j>> \in before => rank(i) < rank(j)
        /\ \A i, j \in chosen : rank(i) = rank(j) => i = j
        BY Ranks
  <1>2. Sorted(s, chosen, before) = [k \in 1 .. n |-> s[at(k)]]
        BY DEF Sorted
  <1> HIDE DEF rank, n
  <1>3. ASSUME NEW k \in 1 .. n
        PROVE  \E i \in chosen : rank(i) = k - 1
    <2> DEFINE f == [i \in chosen |-> rank(i)]
    <2>1. f \in Injection(chosen, 0 .. n - 1)
          BY <1>1 DEF Injection, IsInjective
    <2>2. IsFiniteSet(0 .. n - 1) /\ Cardinality(0 .. n - 1) = n
      <3>1. Cardinality(0 .. n - 1) = IF 0 > n - 1 THEN 0 ELSE (n - 1) - 0 + 1
            BY <1>1, FS_Interval
      <3>2. IsFiniteSet(0 .. n - 1)
            BY <1>1, FS_Interval
      <3> QED
          BY <1>1, <3>1, <3>2
    <2>3. f \in Surjection(chosen, 0 .. n - 1)
      <3>1. Cardinality(chosen) = Cardinality(0 .. n - 1)
            BY <2>2 DEF n
      <3> HIDE DEF f
      <3> QED
          BY <2>1, <2>2, <3>1, FS_Injection, Zenon
    <2>4. k - 1 \in 0 .. n - 1
          BY <1>1
    <2> QED
        BY <2>3, <2>4 DEF Surjection
  <1>4. \A k \in 1 .. n : at(k) \in chosen /\ rank(at(k)) = k - 1
        BY <1>3
  <1> HIDE DEF at
  <1>5. /\ place \in [1 .. n -> chosen] /\ DOMAIN place = 1 .. n
        /\ \A k \in 1 .. n : place[k] \in chosen /\ rank(place[k]) = k - 1
        /\ \A k \in 1 .. n : Sorted(s, chosen, before)[k] = s[place[k]]
        BY <1>2, <1>4
  <1>6. DOMAIN Sorted(s, chosen, before) = 1 .. n
        BY <1>2
  <1> HIDE DEF place
  <1>7. ASSUME NEW i \in chosen PROVE \E k \in 1 .. n : place[k] = i
    <2>1. rank(i) + 1 \in 1 .. n /\ (rank(i) + 1) - 1 = rank(i)
          BY <1>1
    <2>2. place[rank(i) + 1] \in chosen /\ rank(place[rank(i) + 1]) = rank(i)
          BY <1>5, <2>1
    <2> QED
        BY <1>1, <2>1, <2>2
  <1>8. ASSUME NEW k \in 1 .. n, NEW l \in 1 .. n
        PROVE  k < l => <<place[l], place[k]>> \notin before
    <2>1. rank(place[k]) = k - 1 /\ rank(place[l]) = l - 1 /\ place[k] \in chosen
          /\ place[l] \in chosen
          BY <1>5
    <2>2. <<place[l], place[k]>> \in before => l - 1 < k - 1
          BY <1>1, <2>1
    <2>3. k \in Int /\ l \in Int
          OBVIOUS
    <2> QED
        BY <2>1, <2>2, <2>3
  <1> QED
      BY <1>1, <1>5, <1>6, <1>7, <1>8 DEF n, Arranges

-----------------------------------------------------------------------------
(* The two tables of a namespace, and their searches.                      *)
DeclaredNames == {line.name : line \in AllDeclarations}

SameEntries(t, cs) ==
    /\ \A k \in DOMAIN t : \E i \in DOMAIN cs : t[k] = cs[i]
    /\ \A i \in DOMAIN cs : \E k \in DOMAIN t : t[k] = cs[i]

LEMMA ByIdIs ==
    ASSUME NEW n \in Nat, NEW cs, DOMAIN cs = 1 .. n,
           \A i \in 1 .. n : cs[i].id \in Nat
    PROVE  /\ DOMAIN ById(cs) = 1 .. n
           /\ SameEntries(ById(cs), cs)
           /\ \A k, l \in 1 .. n : k < l => ById(cs)[k].id <= ById(cs)[l].id
  <1> DEFINE picked == 1 .. n
             less == {p \in Pairs(cs) : cs[p[1]].id < cs[p[2]].id}
             t == Sorted(cs, picked, less)
  <1>1. ById(cs) = t
        BY DEF ById
  <1>2. \A i, j \in picked : <<i, j>> \in less <=> cs[i].id < cs[j].id
        BY DEF Pairs
  <1>3. Weak(picked, less)
    <2> HIDE DEF less
    <2>1. \A i, j, k \in picked :
             /\ ~(cs[i].id < cs[i].id)
             /\ cs[i].id < cs[j].id /\ cs[j].id < cs[k].id => cs[i].id < cs[k].id
             /\ cs[i].id < cs[k].id => cs[i].id < cs[j].id \/ cs[j].id < cs[k].id
      <3> SUFFICES ASSUME NEW i \in picked, NEW j \in picked, NEW k \in picked
                   PROVE  /\ ~(cs[i].id < cs[i].id)
                          /\ cs[i].id < cs[j].id /\ cs[j].id < cs[k].id =>
                                cs[i].id < cs[k].id
                          /\ cs[i].id < cs[k].id =>
                                cs[i].id < cs[j].id \/ cs[j].id < cs[k].id
          OBVIOUS
      <3>1. cs[i].id \in Int /\ cs[j].id \in Int /\ cs[k].id \in Int
            OBVIOUS
      <3> QED
          BY <3>1
    <2> QED
        BY <1>2, <2>1, Zenon DEF Weak
  <1>4. IsFiniteSet(picked) /\ picked \subseteq Nat /\ Cardinality(picked) = n
    <2>1. IsFiniteSet(picked) /\ Cardinality(picked) = IF 1 > n THEN 0 ELSE n - 1 + 1
          BY FS_Interval
    <2> QED
        BY <2>1
  <1> HIDE DEF less, picked
  <1>50. Arranges(Sorted(cs, picked, less), cs, picked, less)
        BY <1>3, <1>4, SortedIs
  <1>5. DOMAIN t = 1 .. n
        BY <1>4, <1>50 DEF Arranges
  <1>6. PICK place \in [1 .. n -> picked] :
                 /\ \A k \in DOMAIN place : t[k] = cs[place[k]]
                 /\ \A i \in picked : \E k \in DOMAIN place : place[k] = i
                 /\ \A k, l \in DOMAIN place : k < l => <<place[l], place[k]>> \notin less
        BY <1>4, <1>50 DEF Arranges
  <1> HIDE DEF t
  <1>7. DOMAIN cs = picked /\ DOMAIN place = 1 .. n /\ \A k \in 1 .. n : place[k] \in picked
        BY DEF picked
  <1>8. SameEntries(t, cs)
    <2>1. \A k \in 1 .. n : \E i \in picked : t[k] = cs[i]
          BY <1>6, <1>7, Zenon
    <2>2. ASSUME NEW i \in picked PROVE \E k \in 1 .. n : t[k] = cs[i]
      <3>1. PICK k \in 1 .. n : place[k] = i
            BY <1>6, <1>7, Zenon
      <3>2. t[k] = cs[i]
            BY <1>6, <1>7, <3>1, Zenon
      <3> QED
          BY <3>2
    <2> QED
        BY <1>5, <1>7, <2>1, <2>2, Zenon DEF SameEntries
  <1>9. ASSUME NEW k \in 1 .. n, NEW l \in 1 .. n, k < l
        PROVE  t[k].id <= t[l].id
    <2>1. ~(cs[place[l]].id < cs[place[k]].id)
          BY <1>2, <1>6, <1>7, <1>9
    <2>2. cs[place[l]].id \in Nat /\ cs[place[k]].id \in Nat
          BY <1>7 DEF picked
    <2>3. t[k] = cs[place[k]] /\ t[l] = cs[place[l]]
          BY <1>6, <1>7
    <2> QED
        BY <2>1, <2>2, <2>3
  <1> QED
      BY <1>1, <1>5, <1>8, <1>9

AnswersId(t, n, id) ==
    /\ SearchById(t, id).found <=> \E k \in 1 .. n : t[k].id = id
    /\ SearchById(t, id).found =>
          \E k \in 1 .. n : t[k].id = id /\ SearchById(t, id).entry = t[k]

LEMMA SearchByIdIs ==
    ASSUME NEW n \in Nat, NEW t, DOMAIN t = 1 .. n,
           \A i \in 1 .. n : t[i].id \in Nat,
           \A k, l \in 1 .. n : k < l => t[k].id <= t[l].id,
           NEW id \in Nat
    PROVE  AnswersId(t, n, id)
  <1> DEFINE before == {j \in DOMAIN t : t[j].id < id}
             i == PartitionPoint(t, before)
  <1>1. \A j \in 1 .. n : j \in before <=> t[j].id < id
        OBVIOUS
  <1> HIDE DEF before
  <1>2. /\ i \in 1 .. n + 1
        /\ \A j \in 1 .. n : j < i => j \in before
        /\ i <= n => i \notin before
        BY <1>1, PartitionPointIs
  <1>3. SearchById(t, id) = IF i \in 1 .. n /\ t[i].id = id THEN Hit(t[i]) ELSE NotFound
        BY DEF SearchById, before
  <1> HIDE DEF i
  <1>4. ASSUME NEW k \in 1 .. n, t[k].id = id
        PROVE  i \in 1 .. n /\ t[i].id = id
    <2>1. ~(k < i)
          BY <1>1, <1>2, <1>4
    <2>2. i \in 1 .. n /\ i <= k
          BY <1>2, <2>1
    <2>3. ~(t[i].id < id)
          BY <1>1, <1>2, <2>2
    <2>4. t[i].id <= t[k].id
      <3>1. CASE i = k
        <4>1. t[k].id <= t[k].id
              BY <1>4
        <4> QED
            BY <3>1, <4>1
      <3>2. CASE i < k
            BY <2>2, <3>2
      <3> QED
          BY <2>2, <3>1, <3>2
    <2>5. t[i].id \in Nat
          BY <2>2
    <2> QED
        BY <1>4, <2>2, <2>3, <2>4, <2>5
  <1>5. NotFound.found = FALSE /\ \A e : Hit(e).found = TRUE /\ Hit(e).entry = e
        BY DEF NotFound, Hit
  <1> QED
      BY <1>3, <1>4, <1>5 DEF AnswersId

LEMMA NameOrder ==
    /\ \A a \in DeclaredNames : ~NamePrecedes(a, a)
    /\ \A a, b \in DeclaredNames : a = b \/ NamePrecedes(a, b) \/ NamePrecedes(b, a)
    /\ \A a, b, c \in DeclaredNames :
          NamePrecedes(a, b) /\ NamePrecedes(b, c) => NamePrecedes(a, c)
  <1> QED
      BY OrderAssumption DEF Orders, DeclaredNames

LEMMA MethodsAre ==
    ASSUME NEW n \in Nat, NEW cs, DOMAIN cs = 1 .. n,
           \A i \in 1 .. n : cs[i].name \in DeclaredNames
    PROVE  \E m \in Nat :
              /\ DOMAIN Methods(cs) = 1 .. m
              /\ \A k \in 1 .. m : \E i \in 1 .. n : cs[i].isMethod /\ Methods(cs)[k] = cs[i]
              /\ \A i \in 1 .. n : cs[i].isMethod => \E k \in 1 .. m : Methods(cs)[k] = cs[i]
              /\ \A k, l \in 1 .. m :
                    k < l => ~NamePrecedes(Methods(cs)[l].name, Methods(cs)[k].name)
  <1> DEFINE picked == {i \in 1 .. n : cs[i].isMethod}
             less == {p \in Pairs(cs) : NamePrecedes(cs[p[1]].name, cs[p[2]].name)}
             t == Sorted(cs, picked, less)
             m == Cardinality(picked)
  <1>1. Methods(cs) = t
        BY DEF Methods
  <1>2. \A i, j \in picked : <<i, j>> \in less <=> NamePrecedes(cs[i].name, cs[j].name)
        BY DEF Pairs
  <1>3. \A i \in picked : cs[i].name \in DeclaredNames
        OBVIOUS
  <1>4. IsFiniteSet(picked) /\ picked \subseteq Nat
    <2>1. IsFiniteSet(1 .. n) /\ picked \in SUBSET (1 .. n)
          BY FS_Interval
    <2> QED
        BY <2>1, FS_Subset
  <1>5. \A i \in 1 .. n : i \in picked <=> cs[i].isMethod
        OBVIOUS
  <1>6. picked \subseteq 1 .. n
        OBVIOUS
  <1> HIDE DEF less, picked
  <1>7. Weak(picked, less)
    <2> SUFFICES ASSUME NEW i \in picked, NEW j \in picked, NEW k \in picked
                 PROVE  /\ <<i, i>> \notin less
                        /\ <<i, j>> \in less /\ <<j, k>> \in less => <<i, k>> \in less
                        /\ <<i, k>> \in less => <<i, j>> \in less \/ <<j, k>> \in less
        BY Zenon DEF Weak
    <2>1. cs[i].name \in DeclaredNames /\ cs[j].name \in DeclaredNames
          /\ cs[k].name \in DeclaredNames
          BY <1>3
    <2>2. \/ cs[i].name = cs[j].name \/ NamePrecedes(cs[i].name, cs[j].name)
          \/ NamePrecedes(cs[j].name, cs[i].name)
          BY <2>1, NameOrder, Zenon
    <2>3. <<i, k>> \in less => <<i, j>> \in less \/ <<j, k>> \in less
      <3> SUFFICES ASSUME NamePrecedes(cs[i].name, cs[k].name),
                          ~NamePrecedes(cs[i].name, cs[j].name)
                   PROVE  NamePrecedes(cs[j].name, cs[k].name)
          BY <1>2, Zenon
      <3>1. CASE cs[i].name = cs[j].name
            BY <3>1, Zenon
      <3>2. CASE NamePrecedes(cs[j].name, cs[i].name)
            BY <2>1, <3>2, NameOrder, Zenon
      <3> QED
          BY <2>2, <3>1, <3>2, Zenon
    <2>4. <<i, j>> \in less /\ <<j, k>> \in less => <<i, k>> \in less
          BY <1>2, <2>1, NameOrder, Zenon
    <2>5. <<i, i>> \notin less
          BY <1>2, <2>1, NameOrder, Zenon
    <2> QED
        BY <2>3, <2>4, <2>5
  <1>80. m \in Nat /\ Arranges(Sorted(cs, picked, less), cs, picked, less)
         BY <1>4, <1>7, SortedIs
  <1>8. m \in Nat /\ DOMAIN t = 1 .. m
        BY <1>80 DEF Arranges
  <1>9. PICK place \in [1 .. m -> picked] :
                 /\ \A k \in DOMAIN place : t[k] = cs[place[k]]
                 /\ \A i \in picked : \E k \in DOMAIN place : place[k] = i
                 /\ \A k, l \in DOMAIN place : k < l => <<place[l], place[k]>> \notin less
        BY <1>80 DEF Arranges
  <1> HIDE DEF t, m
  <1>10. DOMAIN place = 1 .. m /\ \A k \in 1 .. m : place[k] \in picked
         OBVIOUS
  <1>11. \A k \in 1 .. m : \E i \in 1 .. n : cs[i].isMethod /\ t[k] = cs[i]
         BY <1>5, <1>6, <1>9, <1>10
  <1>12. \A i \in 1 .. n : cs[i].isMethod => \E k \in 1 .. m : t[k] = cs[i]
         BY <1>5, <1>9, <1>10
  <1>13. \A k, l \in 1 .. m : k < l => ~NamePrecedes(t[l].name, t[k].name)
    <2> SUFFICES ASSUME NEW k \in 1 .. m, NEW l \in 1 .. m, k < l
                 PROVE  ~NamePrecedes(t[l].name, t[k].name)
        BY Zenon
    <2>1. place[k] \in picked /\ place[l] \in picked /\ <<place[l], place[k]>> \notin less
          BY <1>9, <1>10, Zenon
    <2>2. t[k] = cs[place[k]] /\ t[l] = cs[place[l]]
          BY <1>9, <1>10, Zenon
    <2> QED
        BY <1>2, <2>1, <2>2, Zenon
  <1>14. /\ DOMAIN Methods(cs) = 1 .. m
         /\ \A k \in 1 .. m : \E i \in 1 .. n : cs[i].isMethod /\ Methods(cs)[k] = cs[i]
         /\ \A i \in 1 .. n : cs[i].isMethod => \E k \in 1 .. m : Methods(cs)[k] = cs[i]
         /\ \A k, l \in 1 .. m :
               k < l => ~NamePrecedes(Methods(cs)[l].name, Methods(cs)[k].name)
         BY <1>1, <1>8, <1>11, <1>12, <1>13, Zenon
  <1> QED
      BY <1>8, <1>14, Zenon

AnswersName(t, m, name) ==
    /\ SearchByName(t, name).found <=> \E k \in 1 .. m : t[k].name = name
    /\ SearchByName(t, name).found =>
          \E k \in 1 .. m : t[k].name = name /\ SearchByName(t, name).entry = t[k]

LEMMA SearchByNameIs ==
    ASSUME NEW m \in Nat, NEW t, DOMAIN t = 1 .. m,
           \A k \in 1 .. m : t[k].name \in DeclaredNames,
           \A k, l \in 1 .. m : k < l => ~NamePrecedes(t[l].name, t[k].name),
           NEW name \in DeclaredNames
    PROVE  AnswersName(t, m, name)
  <1> DEFINE before == {j \in DOMAIN t : NamePrecedes(t[j].name, name)}
             i == PartitionPoint(t, before)
  <1>1. \A j \in 1 .. m : j \in before <=> NamePrecedes(t[j].name, name)
        OBVIOUS
  <1> HIDE DEF before
  <1>2. /\ i \in 1 .. m + 1
        /\ \A j \in 1 .. m : j < i => j \in before
        /\ i <= m => i \notin before
        BY <1>1, PartitionPointIs
  <1>3. SearchByName(t, name) = IF i \in 1 .. m /\ t[i].name = name
                                THEN Hit(t[i]) ELSE NotFound
        BY DEF SearchByName, before
  <1> HIDE DEF i
  <1>4. ASSUME NEW k \in 1 .. m, t[k].name = name
        PROVE  i \in 1 .. m /\ t[i].name = name
    <2>1. ~(k < i)
          BY <1>1, <1>2, <1>4, NameOrder
    <2>2. i \in 1 .. m /\ (i = k \/ i < k)
          BY <1>2, <2>1
    <2>3. ~NamePrecedes(t[i].name, name)
          BY <1>1, <1>2, <2>2
    <2>4. CASE i = k
          BY <1>4, <2>4
    <2>5. CASE i < k
      <3>1. ~NamePrecedes(name, t[i].name)
            BY <1>4, <2>2, <2>5
      <3>2. t[i].name \in DeclaredNames
            BY <2>2
      <3> QED
          BY <2>2, <2>3, <3>1, <3>2, NameOrder
    <2> QED
        BY <2>2, <2>4, <2>5
  <1>5. NotFound.found = FALSE /\ \A e : Hit(e).found = TRUE /\ Hit(e).entry = e
        BY DEF NotFound, Hit
  <1> QED
      BY <1>3, <1>4, <1>5 DEF AnswersName

(* The constructors of a namespace as they were read, in any order.        *)
HitsEntry(hit, n, cs, id) ==
    /\ hit.found <=> \E i \in 1 .. n : cs[i].id = id
    /\ hit.found => \E i \in 1 .. n : cs[i].id = id /\ hit.entry = cs[i]

HitsMethod(hit, n, cs, name) ==
    /\ hit.found <=> \E i \in 1 .. n : cs[i].isMethod /\ cs[i].name = name
    /\ hit.found => \E i \in 1 .. n : /\ cs[i].isMethod /\ cs[i].name = name
                                       /\ hit.entry = cs[i]

LEMMA TablesAnswer ==
    ASSUME NEW n \in Nat, NEW cs, DOMAIN cs = 1 .. n,
           \A i \in 1 .. n : cs[i].id \in Nat /\ cs[i].name \in DeclaredNames,
           NEW id \in Nat, NEW name \in DeclaredNames
    PROVE  /\ HitsEntry(SearchById(ById(cs), id), n, cs, id)
           /\ HitsMethod(SearchByName(Methods(ById(cs)), name), n, cs, name)
  <1> DEFINE sorted == ById(cs)
             list == Methods(sorted)
  <1>1. /\ DOMAIN sorted = 1 .. n
        /\ SameEntries(sorted, cs)
        /\ \A k, l \in 1 .. n : k < l => sorted[k].id <= sorted[l].id
    <2>1. \A i \in 1 .. n : cs[i].id \in Nat
          OBVIOUS
    <2> QED
        BY <2>1, ByIdIs, Zenon
  <1> HIDE DEF sorted
  <1>2. /\ \A k \in 1 .. n : \E i \in 1 .. n : sorted[k] = cs[i]
        /\ \A i \in 1 .. n : \E k \in 1 .. n : sorted[k] = cs[i]
        BY <1>1, Zenon DEF SameEntries
  <1>3. /\ \A k \in 1 .. n : sorted[k].id \in Nat
        /\ \A k \in 1 .. n : sorted[k].name \in DeclaredNames
        BY <1>2, Zenon
  <1>4. PICK m \in Nat :
              /\ DOMAIN list = 1 .. m
              /\ \A k \in 1 .. m : \E i \in 1 .. n : sorted[i].isMethod /\ list[k] = sorted[i]
              /\ \A i \in 1 .. n : sorted[i].isMethod => \E k \in 1 .. m : list[k] = sorted[i]
              /\ \A k, l \in 1 .. m : k < l => ~NamePrecedes(list[l].name, list[k].name)
        BY <1>1, <1>3, MethodsAre, Zenon
  <1> HIDE DEF list
  <1>5. \A k \in 1 .. m : list[k].name \in DeclaredNames
        BY <1>3, <1>4, Zenon
  <1>6. /\ SearchById(sorted, id).found <=> \E k \in 1 .. n : sorted[k].id = id
        /\ SearchById(sorted, id).found =>
                 \E k \in 1 .. n : sorted[k].id = id /\ SearchById(sorted, id).entry = sorted[k]
    <2>1. AnswersId(sorted, n, id)
          BY <1>1, <1>3, SearchByIdIs, Zenon
    <2> QED
        BY <2>1, Zenon DEF AnswersId
  <1>7. /\ SearchByName(list, name).found <=> \E k \in 1 .. m : list[k].name = name
        /\ SearchByName(list, name).found =>
                 \E k \in 1 .. m : list[k].name = name /\ SearchByName(list, name).entry = list[k]
    <2>1. AnswersName(list, m, name)
          BY <1>4, <1>5, SearchByNameIs, Zenon
    <2> QED
        BY <2>1, Zenon DEF AnswersName
  <1>8. (\E k \in 1 .. n : sorted[k].id = id) <=> \E i \in 1 .. n : cs[i].id = id
        BY <1>2, Zenon
  <1>9. ASSUME NEW k \in 1 .. n, sorted[k].id = id, SearchById(sorted, id).entry = sorted[k]
        PROVE  \E i \in 1 .. n : cs[i].id = id /\ SearchById(sorted, id).entry = cs[i]
        BY <1>2, <1>9, Zenon
  <1>10. ASSUME NEW k \in 1 .. m
         PROVE  \E i \in 1 .. n : cs[i].isMethod /\ list[k] = cs[i]
    <2>1. PICK j \in 1 .. n : sorted[j].isMethod /\ list[k] = sorted[j]
          BY <1>4, Zenon
    <2>2. PICK i \in 1 .. n : sorted[j] = cs[i]
          BY <1>2, Zenon
    <2> QED
        BY <2>1, <2>2, Zenon
  <1>11. ASSUME NEW i \in 1 .. n, cs[i].isMethod
         PROVE  \E k \in 1 .. m : list[k] = cs[i]
    <2>1. PICK j \in 1 .. n : sorted[j] = cs[i]
          BY <1>2, Zenon
    <2>2. sorted[j].isMethod
          BY <1>11, <2>1, Zenon
    <2>3. PICK k \in 1 .. m : list[k] = sorted[j]
          BY <1>4, <2>2, Zenon
    <2> QED
        BY <2>1, <2>3, Zenon
  <1>12. (\E k \in 1 .. m : list[k].name = name)
            <=> \E i \in 1 .. n : cs[i].isMethod /\ cs[i].name = name
    <2>1. ASSUME NEW k \in 1 .. m, list[k].name = name
          PROVE  \E i \in 1 .. n : cs[i].isMethod /\ cs[i].name = name
          BY <1>10, <2>1, Zenon
    <2>2. ASSUME NEW i \in 1 .. n, cs[i].isMethod, cs[i].name = name
          PROVE  \E k \in 1 .. m : list[k].name = name
          BY <1>11, <2>2, Zenon
    <2> QED
        BY <2>1, <2>2, Zenon
  <1>13. ASSUME NEW k \in 1 .. m, list[k].name = name, SearchByName(list, name).entry = list[k]
         PROVE  \E i \in 1 .. n :
                    /\ cs[i].isMethod /\ cs[i].name = name
                    /\ SearchByName(list, name).entry = cs[i]
         BY <1>10, <1>13, Zenon
  <1>14. /\ SearchById(sorted, id).found <=> \E i \in 1 .. n : cs[i].id = id
         /\ SearchById(sorted, id).found =>
                 \E i \in 1 .. n : cs[i].id = id /\ SearchById(sorted, id).entry = cs[i]
         BY <1>6, <1>8, <1>9, Zenon
  <1>15. /\ SearchByName(list, name).found <=>
                 \E i \in 1 .. n : cs[i].isMethod /\ cs[i].name = name
         /\ SearchByName(list, name).found =>
                 \E i \in 1 .. n :
                    /\ cs[i].isMethod /\ cs[i].name = name
                    /\ SearchByName(list, name).entry = cs[i]
         BY <1>7, <1>12, <1>13, Zenon
  <1>16. HitsEntry(SearchById(sorted, id), n, cs, id)
         BY <1>14, Zenon DEF HitsEntry
  <1>17. HitsMethod(SearchByName(list, name), n, cs, name)
         BY <1>15, Zenon DEF HitsMethod
  <1> QED
      BY <1>16, <1>17, Zenon DEF sorted, list

(* The namespaces are searched in their order.                             *)
Homes == {"core", "common"} \cup ({line.name[1] : line \in AllDeclarations} \ {""})

LEMMA FirstNamespace ==
    ASSUME NEW D, IsFiniteSet(D), D \subseteq Homes, D # {}
    PROVE  \E n \in D : \A m \in D : m = n \/ Precedes(n, m)
  <1> DEFINE ahead(n) == {m \in D : Precedes(m, n)}
  <1>1. /\ \A a \in D : ~Precedes(a, a)
        /\ \A a, b \in D : a = b \/ Precedes(a, b) \/ Precedes(b, a)
        /\ \A a, b, c \in D : Precedes(a, b) /\ Precedes(b, c) => Precedes(a, c)
    <2>1. Orders(Precedes, Homes)
          BY OrderAssumption DEF Homes
    <2> QED
        BY <2>1, Zenon DEF Orders
  <1>2. ASSUME NEW n \in D
        PROVE  IsFiniteSet(ahead(n)) /\ Cardinality(ahead(n)) \in Nat
    <2>1. ahead(n) \in SUBSET D
          OBVIOUS
    <2> HIDE DEF ahead
    <2> QED
        BY <2>1, FS_Subset, FS_CardinalityType
  <1> DEFINE sizes == {Cardinality(ahead(n)) : n \in D}
  <1>3. sizes \in SUBSET Nat /\ sizes # {}
    <2> HIDE DEF ahead
    <2> QED
        BY <1>2
  <1>4. PICK least \in sizes : \A s \in sizes : least <= s
    <2> HIDE DEF sizes
    <2> QED
        BY <1>3, LeastNatural, Zenon
  <1>5. PICK n \in D : least = Cardinality(ahead(n))
        BY <1>4
  <1>6. ASSUME NEW m \in D, Precedes(m, n)
        PROVE  FALSE
    <2>1. ahead(m) \in SUBSET ahead(n) /\ m \in ahead(n) /\ m \notin ahead(m)
          BY <1>1, <1>6
    <2>2. Cardinality(ahead(n)) <= Cardinality(ahead(m))
          BY <1>4, <1>5
    <2> HIDE DEF ahead
    <2>3. /\ Cardinality(ahead(m)) <= Cardinality(ahead(n))
          /\ Cardinality(ahead(n)) = Cardinality(ahead(m)) => ahead(n) = ahead(m)
          BY <1>2, <2>1, FS_Subset
    <2>4. Cardinality(ahead(n)) \in Nat /\ Cardinality(ahead(m)) \in Nat
          BY <1>2
    <2> QED
        BY <2>1, <2>2, <2>3, <2>4
  <1> QED
      BY <1>1, <1>6

LEMMA FirstOfIs ==
    ASSUME NEW hits, IsFiniteSet(DOMAIN hits), DOMAIN hits \subseteq Homes,
           hits = [n \in DOMAIN hits |-> hits[n]]
    PROVE  /\ DOMAIN hits = {} => FirstOf(hits) = NotFound
           /\ DOMAIN hits # {} => \E n \in DOMAIN hits : FirstOf(hits) = hits[n]
  <1> DEFINE first == CHOOSE n \in DOMAIN hits :
                         \A m \in DOMAIN hits : m = n \/ Precedes(n, m)
  <1>1. CASE DOMAIN hits = {}
    <2>1. hits = << >>
          BY <1>1
    <2> QED
        BY <1>1, <2>1 DEF FirstOf
  <1>2. CASE DOMAIN hits # {}
    <2>1. hits # << >>
          BY <1>2
    <2>2. first \in DOMAIN hits
          BY <1>2, FirstNamespace
    <2>3. FirstOf(hits) = hits[first]
          BY <2>1 DEF FirstOf
    <2> QED
        BY <1>2, <2>2, <2>3
  <1> QED
      BY <1>1, <1>2

-----------------------------------------------------------------------------
(* The flags words of a declaration.                                       *)
LEMMA SequencesDomain ==
    \A S : \A s \in Seq(S) : \E n \in Nat : DOMAIN s = 1 .. n
  <1> QED
      OBVIOUS

LEMMA Ordered ==
    \A n \in Nat : \A a, b \in 1 .. n : a = b \/ a < b \/ b < a
  <1> QED
      OBVIOUS

LEMMA WordsDiffer ==
    ASSUME NEW n \in Nat, NEW tokens, NEW k \in 1 .. n, NEW l \in 1 .. n,
           IsWord(tokens[k]), k < l
    PROVE  NumberOf(tokens, k) # NumberOf(tokens, l)
  <1> DEFINE A == WordsBefore(tokens, k)
             B == WordsBefore(tokens, l)
  <1>1. k \in 1 .. n /\ l \in 1 .. n /\ IsWord(tokens[k])
        OBVIOUS
  <1>2. A \in SUBSET B
    <2>1. \A i \in 1 .. k - 1 : i \in 1 .. l - 1
          BY <1>1
    <2> QED
        BY <2>1, Zenon DEF WordsBefore
  <1>20. k \in B
    <2>1. k \in 1 .. l - 1
          BY <1>1
    <2> QED
        BY <1>1, <2>1, Zenon DEF WordsBefore
  <1>21. k \notin A
    <2>1. k \notin 1 .. k - 1
          BY <1>1
    <2> QED
        BY <2>1, Zenon DEF WordsBefore
  <1>3. IsFiniteSet(B)
    <2>1. B \in SUBSET (1 .. l - 1)
          BY DEF WordsBefore
    <2>2. IsFiniteSet(1 .. l - 1)
          BY <1>1, FS_Interval
    <2> HIDE DEF B
    <2> QED
        BY <2>1, <2>2, FS_Subset
  <1>5. NumberOf(tokens, k) = Cardinality(A) /\ NumberOf(tokens, l) = Cardinality(B)
        BY Zenon DEF NumberOf
  <1> HIDE DEF A, B
  <1>4. Cardinality(B) = Cardinality(A) => A = B
        BY <1>2, <1>3, FS_Subset
  <1> QED
      BY <1>20, <1>21, <1>4, <1>5, Zenon

LEMMA NamedIsBefore ==
    ASSUME NEW n \in Nat, NEW tokens, DOMAIN tokens = 1 .. n, NEW j \in 1 .. n,
           Named(tokens, j) # {}
    PROVE  /\ FirstNamed(tokens, j) \in 1 .. n
           /\ IsWord(tokens[FirstNamed(tokens, j)])
           /\ tokens[FirstNamed(tokens, j)].name = tokens[j].flags
  <1>1. \A i \in Named(tokens, j) :
           i \in 1 .. j - 1 /\ IsWord(tokens[i]) /\ tokens[i].name = tokens[j].flags
        BY Zenon DEF Named, WordsBefore
  <1>2. \A i \in 1 .. j - 1 : i \in 1 .. n /\ i \in Nat
        OBVIOUS
  <1>3. Named(tokens, j) \in SUBSET Nat
        BY <1>1, <1>2, Zenon
  <1>4. \E i \in Named(tokens, j) : \A m \in Named(tokens, j) : i <= m
        BY <1>3, LeastNatural, Zenon
  <1>5. FirstNamed(tokens, j) \in Named(tokens, j)
        BY <1>4, Zenon DEF FirstNamed
  <1> QED
      BY <1>1, <1>2, <1>5, Zenon

LEMMA FieldIs ==
    \A r, a, b, c, d :
        r = [name |-> a, ty |-> b, bit |-> c, flagsField |-> d] =>
            r.name = a /\ r.ty = b /\ r.flagsField = d
  <1> QED
      OBVIOUS

LEMMA FieldsAre ==
    ASSUME NEW n \in Nat, NEW tokens, DOMAIN tokens = 1 .. n
    PROVE  /\ DOMAIN ParseFields(tokens) = 1 .. n
           /\ \A k \in 1 .. n : /\ ParseFields(tokens)[k].ty = tokens[k].ty
                               /\ ParseFields(tokens)[k].name = tokens[k].name
           /\ \A k \in 1 .. n : IsWord(tokens[k]) =>
                 ParseFields(tokens)[k].flagsField = NumberOf(tokens, k)
           /\ \A k \in 1 .. n : ~IsWord(tokens[k]) /\ tokens[k].flags # "" =>
                 ParseFields(tokens)[k].flagsField = NumberOf(tokens, FirstNamed(tokens, k))
  <1> DEFINE number(i) == IF IsWord(tokens[i]) THEN NumberOf(tokens, i)
                       ELSE IF tokens[i].flags = "" THEN NoFlags
                       ELSE NumberOf(tokens, FirstNamed(tokens, i))
  <1>1. ParseFields(tokens) =
           [i \in 1 .. n |-> [name |-> tokens[i].name, ty |-> tokens[i].ty,
                               bit |-> tokens[i].bit, flagsField |-> number(i)]]
        BY Zenon DEF ParseFields
  <1>2. ASSUME NEW k \in 1 .. n
        PROVE  /\ IsWord(tokens[k]) => number(k) = NumberOf(tokens, k)
               /\ ~IsWord(tokens[k]) /\ tokens[k].flags # "" =>
                     number(k) = NumberOf(tokens, FirstNamed(tokens, k))
    <2> QED
        BY Zenon
  <1> HIDE DEF number
  <1>3. DOMAIN ParseFields(tokens) = 1 .. n
        BY <1>1, Zenon
  <1>4. ASSUME NEW k \in 1 .. n
        PROVE  /\ ParseFields(tokens)[k].ty = tokens[k].ty
               /\ ParseFields(tokens)[k].name = tokens[k].name
               /\ ParseFields(tokens)[k].flagsField = number(k)
    <2>1. ParseFields(tokens)[k] = [name |-> tokens[k].name, ty |-> tokens[k].ty,
                                    bit |-> tokens[k].bit, flagsField |-> number(k)]
          BY <1>1, Zenon
    <2> QED
        BY <2>1, FieldIs
  <1> QED
      BY <1>2, <1>3, <1>4, Zenon

WordFound(fields, tokens, j) ==
    LET words == {k \in DOMAIN fields : fields[k].ty = "#"}
    IN  {k \in words : fields[k].flagsField = fields[j].flagsField}
          = {k \in words : fields[k].name = tokens[j].flags}

FlagsWordsOf(tokens) ==
    \A j \in DOMAIN tokens : tokens[j].flags # "" => WordFound(ParseFields(tokens), tokens, j)

LEMMA FlagsWords ==
    \A line \in AllDeclarations : WellFormed(line.fields) => FlagsWordsOf(line.fields)
  <1> SUFFICES ASSUME NEW line \in AllDeclarations, WellFormed(line.fields),
                      NEW tokens, tokens = line.fields
               PROVE  FlagsWordsOf(tokens)
      BY Zenon
  <1>1. /\ tokens \in Seq([name : STRING, ty : STRING, flags : STRING, bit : Nat])
        /\ \A i \in DOMAIN tokens : IsWord(tokens[i]) => tokens[i].flags = ""
        /\ \A i, k \in DOMAIN tokens :
              IsWord(tokens[i]) /\ IsWord(tokens[k]) /\ tokens[i].name = tokens[k].name => i = k
        BY FieldsAssumption, Zenon
  <1>2. WellFormed(tokens)
        BY Zenon
  <1>3. PICK n \in Nat : DOMAIN tokens = 1 .. n
        BY <1>1, SequencesDomain, Zenon
  <1> SUFFICES ASSUME NEW j \in 1 .. n, tokens[j].flags # ""
               PROVE  WordFound(ParseFields(tokens), tokens, j)
      BY <1>3, Zenon DEF FlagsWordsOf
  <1> DEFINE fields == ParseFields(tokens)
             words == {k \in DOMAIN fields : fields[k].ty = "#"}
             w == FirstNamed(tokens, j)
  <1>4. /\ w \in 1 .. n /\ IsWord(tokens[w]) /\ tokens[w].name = tokens[j].flags
    <2>1. Named(tokens, j) # {}
          BY <1>2, <1>3, Zenon DEF WellFormed
    <2> QED
        BY <1>3, <2>1, NamedIsBefore, Zenon
  <1>5. ~IsWord(tokens[j])
        BY <1>1, <1>3, Zenon
  <1> HIDE DEF w
  <1>6. /\ DOMAIN fields = 1 .. n
        /\ \A k \in 1 .. n : fields[k].ty = tokens[k].ty /\ fields[k].name = tokens[k].name
        /\ \A k \in 1 .. n : IsWord(tokens[k]) => fields[k].flagsField = NumberOf(tokens, k)
        /\ fields[j].flagsField = NumberOf(tokens, w)
        BY <1>3, <1>5, FieldsAre, Zenon DEF w
  <1> HIDE DEF fields
  <1>7. \A k \in words : k \in 1 .. n /\ IsWord(tokens[k])
        BY <1>6, Zenon DEF IsWord
  <1> HIDE DEF words
  <1>8. ASSUME NEW k \in words, NumberOf(tokens, k) = NumberOf(tokens, w)
        PROVE  k = w
    <2>1. k \in 1 .. n /\ IsWord(tokens[k])
          BY <1>7, Zenon
    <2>2. k = w \/ k < w \/ w < k
          BY <1>4, <2>1, Ordered, Zenon
    <2> QED
        BY <1>4, <1>8, <2>1, <2>2, WordsDiffer, Zenon
  <1>9. \A k \in words : tokens[k].name = tokens[j].flags <=> k = w
        BY <1>1, <1>3, <1>4, <1>7, Zenon
  <1>10. \A k \in words : fields[k].name = tokens[j].flags <=> k = w
         BY <1>6, <1>7, <1>9, Zenon
  <1>11. \A k \in words : fields[k].flagsField = fields[j].flagsField <=> k = w
         BY <1>6, <1>7, <1>8, Zenon
  <1>12. {k \in words : fields[k].flagsField = fields[j].flagsField}
            = {k \in words : fields[k].name = tokens[j].flags}
         BY <1>10, <1>11, Zenon
  <1> QED
      BY <1>12, Zenon DEF fields, words, WordFound

-----------------------------------------------------------------------------
(* The inductive invariant.  Records relates an entry of a namespace to    *)
(* the declaration it was made of.                                         *)
AllLines == UNION {LinesOf[f] : f \in DOMAIN LinesOf}
Declared == {k \in DOMAIN text : text[k].line.kind = "declaration"}
Home(k) == HomeOf(text[k].file, text[k].line.name)
ConstructorsOf(n) == namespaces[n].constructors

Records(entry, k) ==
    /\ entry.name = text[k].line.name
    /\ entry.id = text[k].line.id
    /\ entry.isMethod <=> MethodAt(k)
    /\ entry.fields = ParseFields(text[k].line.fields)

GeneratorTypes ==
    /\ text \in Seq([file : DOMAIN LinesOf, line : AllLines])
    /\ file \in Nat
    /\ state \in {"idle", "reading", "error", "written"}
    /\ state = "idle" =>
          text = <<>> /\ isMethod = FALSE /\ namespaces = << >> /\ file = 0
    /\ state = "reading" => file > 0

TextOrder ==
    \A k \in DOMAIN text :
        /\ text[k].line \in LinesOf[text[k].file]
        /\ \E p \in DOMAIN Files : p <= file /\ text[k].file = Files[p]

Section ==
    state = "reading" /\ file <= Len(Files) =>
        (isMethod <=> InFunctions(Files[file], Len(text) + 1))

NamespaceIsRead(n) ==
    /\ \E S : ConstructorsOf(n) \in Seq(S)
    /\ \A i \in DOMAIN ConstructorsOf(n) :
          \E k \in Declared : Home(k) = n /\ Records(ConstructorsOf(n)[i], k)
    /\ \A i, j \in DOMAIN ConstructorsOf(n) :
          ConstructorsOf(n)[i].name = ConstructorsOf(n)[j].name => i = j
    /\ namespaces[n].gated <=>
          \E k \in Declared : Home(k) = n /\ text[k].file # "core.tl"

DeclarationIsRead(k) ==
    /\ Home(k) \in DOMAIN namespaces
    /\ \E i \in DOMAIN ConstructorsOf(Home(k)) : Records(ConstructorsOf(Home(k))[i], k)
    /\ WellFormed(text[k].line.fields)

TablesRead ==
    state # "error" =>
        /\ IsFiniteSet(DOMAIN namespaces) /\ DOMAIN namespaces \subseteq Homes
        /\ \A n \in DOMAIN namespaces : NamespaceIsRead(n)
        /\ \A k \in Declared : DeclarationIsRead(k)

TablesWritten ==
    state = "written" =>
        output.of = [n \in DOMAIN namespaces |->
                       [gated |-> namespaces[n].gated, schema |-> ById(ConstructorsOf(n)),
                        methods |-> Methods(ById(ConstructorsOf(n)))]]

GeneratorIInv == GeneratorTypes /\ TextOrder /\ Section /\ TablesRead /\ TablesWritten

-----------------------------------------------------------------------------
(* A line is read: the text grows by it.                                   *)
Grows(n, f, line) ==
    /\ n \in Nat
    /\ DOMAIN text = 1 .. n /\ Len(text) = n
    /\ DOMAIN text' = 1 .. n + 1 /\ Len(text') = n + 1
    /\ \A k \in 1 .. n : text'[k] = text[k]
    /\ text'[n + 1].file = f /\ text'[n + 1].line = line

LEMMA TextLineIs ==
    \A r, a, b, A, B : r = [file |-> a, line |-> b] =>
        /\ r.file = a /\ r.line = b
        /\ a \in A /\ b \in B => r \in [file : A, line : B]
  <1> QED
      OBVIOUS

LEMMA UpToNext ==
    \A n \in Nat : /\ n + 1 \in 1 .. n + 1 /\ n + 1 \in Nat
                   /\ \A k \in 1 .. n + 1 : k \in 1 .. n \/ k = n + 1
  <1> QED
      OBVIOUS

LEMMA FilesAreRead ==
    ASSUME GeneratorTypes, state = "reading", file <= Len(Files)
    PROVE  file \in DOMAIN Files /\ Files[file] \in DOMAIN LinesOf
  <1>1. Files \in Seq(DOMAIN LinesOf)
        BY FilesAssumption, Zenon
  <1>2. file \in Nat /\ file > 0
        BY Zenon DEF GeneratorTypes
  <1>3. file \in 1 .. Len(Files)
        BY <1>1, <1>2
  <1> QED
      BY <1>1, <1>3

LEMMA ReadsALine ==
    ASSUME GeneratorTypes, TextOrder, NEW line, ReadLine(line)
    PROVE  /\ \E n \in Nat, f \in DOMAIN LinesOf : f = Files[file] /\ Grows(n, f, line)
           /\ text' \in Seq([file : DOMAIN LinesOf, line : AllLines])
           /\ TextOrder'
  <1>1. /\ state = "reading" /\ file <= Len(Files) /\ line \in LinesOf[Files[file]]
        /\ text' = Append(text, [file |-> Files[file], line |-> line])
        /\ file' = file
        BY Zenon DEF ReadLine
  <1>2. PICK f \in DOMAIN LinesOf : f = Files[file]
        BY <1>1, FilesAreRead, Zenon
  <1>3. line \in AllLines
        BY <1>1, <1>2, Zenon DEF AllLines
  <1>4. PICK entry : entry = [file |-> f, line |-> line]
        BY Zenon
  <1>5. /\ entry.file = f /\ entry.line = line
        /\ entry \in [file : DOMAIN LinesOf, line : AllLines]
        BY <1>3, <1>4, TextLineIs
  <1>6. text' = Append(text, entry)
        BY <1>1, <1>2, <1>4, Zenon
  <1>7. text \in Seq([file : DOMAIN LinesOf, line : AllLines])
        BY Zenon DEF GeneratorTypes
  <1>8. PICK n \in Nat : n = Len(text)
        BY <1>7
  <1>9. Grows(n, f, line) /\ text' \in Seq([file : DOMAIN LinesOf, line : AllLines])
    <2>1. /\ Len(text) \in Nat /\ DOMAIN text = 1 .. Len(text)
          /\ Append(text, entry) \in Seq([file : DOMAIN LinesOf, line : AllLines])
          /\ Len(Append(text, entry)) = Len(text) + 1
          /\ DOMAIN Append(text, entry) = 1 .. Len(text) + 1
          /\ \A k \in 1 .. Len(text) : Append(text, entry)[k] = text[k]
          /\ Append(text, entry)[Len(text) + 1] = entry
      <3>1. PICK S : S = [file : DOMAIN LinesOf, line : AllLines]
            OBVIOUS
      <3>2. text \in Seq(S) /\ entry \in S
            BY <1>5, <1>7, <3>1, Zenon
      <3>3. /\ Len(text) \in Nat /\ DOMAIN text = 1 .. Len(text)
            /\ Append(text, entry) \in Seq(S)
            /\ Len(Append(text, entry)) = Len(text) + 1
            /\ DOMAIN Append(text, entry) = 1 .. Len(text) + 1
            /\ \A k \in 1 .. Len(text) : Append(text, entry)[k] = text[k]
            /\ Append(text, entry)[Len(text) + 1] = entry
            BY <3>2
      <3> QED
          BY <3>1, <3>3, Zenon
    <2>2. /\ DOMAIN text = 1 .. n
          /\ Len(text') = n + 1 /\ DOMAIN text' = 1 .. n + 1
          /\ \A k \in 1 .. n : text'[k] = text[k]
          /\ text'[n + 1] = entry
          BY <1>6, <1>8, <2>1, Zenon
    <2> QED
        BY <1>5, <1>6, <1>8, <2>1, <2>2, Zenon DEF Grows
  <1>10. TextOrder'
    <2>1. ASSUME NEW k \in 1 .. n
          PROVE  /\ text'[k].line \in LinesOf[text'[k].file]
                 /\ \E p \in DOMAIN Files : p <= file' /\ text'[k].file = Files[p]
      <3>1. text'[k] = text[k] /\ k \in DOMAIN text
            BY <1>9, Zenon DEF Grows
      <3> QED
          BY <1>1, <3>1, Zenon DEF TextOrder
    <2>2. /\ text'[n + 1].line \in LinesOf[text'[n + 1].file]
          /\ \E p \in DOMAIN Files : p <= file' /\ text'[n + 1].file = Files[p]
      <3>1. file \in DOMAIN Files
            BY <1>1, FilesAreRead, Zenon
      <3>2. file <= file
        <4>1. file \in Nat
              BY Zenon DEF GeneratorTypes
        <4> QED
            BY <4>1
      <3> QED
          BY <1>1, <1>2, <1>9, <3>1, <3>2, Zenon DEF Grows
    <2>3. DOMAIN text' = 1 .. n + 1
          BY <1>9, Zenon DEF Grows
    <2> QED
        BY <2>1, <2>2, <2>3, UpToNext, Zenon DEF TextOrder
  <1> QED
      BY <1>2, <1>9, <1>10, Zenon

LEMMA SectionKept ==
    ASSUME NEW n, NEW g, NEW line, Grows(n, g, line), NEW f, NEW i \in 1 .. n + 1
    PROVE  InFunctions(f, i)' <=> InFunctions(f, i)
  <1>1. n \in Nat /\ \A k \in 1 .. n : text'[k] = text[k]
        BY Zenon DEF Grows
  <1>2. \A j \in 1 .. i - 1 : j \in 1 .. n /\ \A k \in j + 1 .. i - 1 : k \in 1 .. n
        BY <1>1
  <1>3. \A j \in 1 .. i - 1 :
           /\ text'[j] = text[j]
           /\ \A k \in j + 1 .. i - 1 : text'[k] = text[k]
        BY <1>1, <1>2, Zenon
  <1> QED
      BY <1>3, Zenon DEF InFunctions

(* What the line that is read does to the section.                         *)
LEMMA SectionRead ==
    ASSUME NEW n, NEW f, NEW line, Grows(n, f, line)
    PROVE  /\ line.kind = "functions" => InFunctions(f, n + 2)'
           /\ line.kind = "types" => ~InFunctions(f, n + 2)'
           /\ line.kind \notin {"functions", "types"} =>
                 (InFunctions(f, n + 2)' <=> InFunctions(f, n + 1))
  <1>1. /\ n \in Nat /\ \A k \in 1 .. n : text'[k] = text[k]
        /\ text'[n + 1].file = f /\ text'[n + 1].line = line
        BY Zenon DEF Grows
  <1>2. /\ n + 1 \in 1 .. n + 1
        /\ \A k \in n + 1 + 1 .. n + 1 : FALSE
        /\ \A j \in 1 .. n + 1 : j \in 1 .. n \/ j = n + 1
        /\ \A j \in 1 .. n : j \in 1 .. n + 1 /\ n + 1 \in j + 1 .. n + 1
        /\ \A j \in 1 .. n : \A k \in j + 1 .. n + 1 :
              k = n + 1 \/ (k \in j + 1 .. n /\ k \in 1 .. n)
        /\ \A j \in 1 .. n : \A k \in j + 1 .. n : k \in j + 1 .. n + 1 /\ k \in 1 .. n
        BY <1>1
  <1>3. InFunctions(f, n + 2)' <=>
           \E j \in 1 .. n + 1 :
              /\ text'[j].file = f /\ text'[j].line.kind = "functions"
              /\ \A k \in j + 1 .. n + 1 : text'[k].line.kind # "types"
    <2>1. PICK i : i = n + 2
          OBVIOUS
    <2>2. i - 1 = n + 1
          BY <1>1, <2>1
    <2>3. InFunctions(f, i)' <=>
             \E j \in 1 .. i - 1 :
                /\ text'[j].file = f /\ text'[j].line.kind = "functions"
                /\ \A k \in j + 1 .. i - 1 : text'[k].line.kind # "types"
          BY Zenon DEF InFunctions
    <2> QED
        BY <2>1, <2>2, <2>3, Zenon
  <1>4. InFunctions(f, n + 1) <=>
           \E j \in 1 .. n :
              /\ text[j].file = f /\ text[j].line.kind = "functions"
              /\ \A k \in j + 1 .. n : text[k].line.kind # "types"
    <2>1. PICK i : i = n + 1
          OBVIOUS
    <2>2. i - 1 = n
          BY <1>1, <2>1
    <2>3. InFunctions(f, i) <=>
             \E j \in 1 .. i - 1 :
                /\ text[j].file = f /\ text[j].line.kind = "functions"
                /\ \A k \in j + 1 .. i - 1 : text[k].line.kind # "types"
          BY Zenon DEF InFunctions
    <2> QED
        BY <2>1, <2>2, <2>3, Zenon
  <1>5. ASSUME line.kind = "functions"
        PROVE  InFunctions(f, n + 2)'
        BY <1>1, <1>2, <1>3, <1>5, Zenon
  <1>6. ASSUME line.kind = "types"
        PROVE  ~InFunctions(f, n + 2)'
    <2>1. line.kind # "functions"
          BY <1>6, Zenon
    <2> QED
        BY <1>1, <1>2, <1>3, <1>6, <2>1, Zenon
  <1>7. ASSUME line.kind # "functions", line.kind # "types", InFunctions(f, n + 2)'
        PROVE  InFunctions(f, n + 1)
    <2>1. PICK j \in 1 .. n + 1 :
              /\ text'[j].file = f /\ text'[j].line.kind = "functions"
              /\ \A k \in j + 1 .. n + 1 : text'[k].line.kind # "types"
          BY <1>3, <1>7, Zenon
    <2>2. j # n + 1
          BY <1>1, <1>7, <2>1, Zenon
    <2>3. j \in 1 .. n
          BY <1>2, <2>2, Zenon
    <2>4. text[j].file = f /\ text[j].line.kind = "functions"
          BY <1>1, <2>1, <2>3, Zenon
    <2>5. \A k \in j + 1 .. n : text[k].line.kind # "types"
      <3>1. \A k \in j + 1 .. n : k \in j + 1 .. n + 1 /\ k \in 1 .. n
            BY <1>2, <2>3, Zenon
      <3> QED
          BY <1>1, <2>1, <3>1, Zenon
    <2> QED
        BY <1>4, <2>3, <2>4, <2>5, Zenon
  <1>8. ASSUME line.kind # "functions", line.kind # "types", InFunctions(f, n + 1)
        PROVE  InFunctions(f, n + 2)'
    <2>1. PICK j \in 1 .. n :
              /\ text[j].file = f /\ text[j].line.kind = "functions"
              /\ \A k \in j + 1 .. n : text[k].line.kind # "types"
          BY <1>4, <1>8, Zenon
    <2>2. text'[j].file = f /\ text'[j].line.kind = "functions"
          BY <1>1, <2>1, Zenon
    <2>3. \A k \in j + 1 .. n + 1 : text'[k].line.kind # "types"
          BY <1>1, <1>2, <1>8, <2>1, Zenon
    <2> QED
        BY <1>2, <1>3, <2>2, <2>3, Zenon
  <1> QED
      BY <1>5, <1>6, <1>7, <1>8, Zenon

LEMMA TextKept ==
    ASSUME NEW n, NEW f, NEW line, Grows(n, f, line)
    PROVE  /\ \A k \in Declared : k \in 1 .. n
           /\ \A k \in Declared' : k \in 1 .. n \/ k = n + 1
           /\ \A k \in 1 .. n : k \in Declared' <=> k \in Declared
           /\ \A k \in 1 .. n :
                 /\ text'[k] = text[k] /\ Home(k)' = Home(k)
                 /\ \A entry : Records(entry, k)' <=> Records(entry, k)
           /\ n + 1 \in Declared' <=> line.kind = "declaration"
           /\ Home(n + 1)' = HomeOf(f, line.name)
  <1>1. /\ n \in Nat /\ DOMAIN text = 1 .. n /\ DOMAIN text' = 1 .. n + 1
        /\ \A k \in 1 .. n : text'[k] = text[k]
        /\ text'[n + 1].file = f /\ text'[n + 1].line = line
        BY Zenon DEF Grows
  <1>2. \A k \in 1 .. n : k \in 1 .. n + 1
        BY <1>1
  <1>3. ASSUME NEW k \in 1 .. n
        PROVE  /\ k \in Declared' <=> k \in Declared
               /\ text'[k] = text[k] /\ Home(k)' = Home(k)
               /\ \A entry : Records(entry, k)' <=> Records(entry, k)
    <2>1. text'[k] = text[k]
          BY <1>1, Zenon
    <2>2. PICK g : g = text[k].file
          OBVIOUS
    <2>3. MethodAt(k)' <=> MethodAt(k)
      <3>1. InFunctions(g, k)' <=> InFunctions(g, k)
            BY <1>2, SectionKept, Zenon
      <3> QED
          BY <2>1, <2>2, <3>1, Zenon DEF MethodAt, InFunctions
    <2> QED
        BY <1>1, <1>2, <2>1, <2>3, Zenon DEF Declared, Home, Records
  <1>4. /\ n + 1 \in Declared' <=> line.kind = "declaration"
        /\ Home(n + 1)' = HomeOf(f, line.name)
        BY <1>1, UpToNext, Zenon DEF Declared, Home
  <1>5. /\ \A k \in Declared : k \in 1 .. n
        /\ \A k \in Declared' : k \in 1 .. n \/ k = n + 1
        BY <1>1, UpToNext, Zenon DEF Declared
  <1> QED
      BY <1>3, <1>4, <1>5, Zenon

LEMMA NamespaceKept ==
    ASSUME NEW n, NEW f, NEW line, Grows(n, f, line), NEW m, NamespaceIsRead(m),
           namespaces'[m] = namespaces[m],
           line.kind = "declaration" => HomeOf(f, line.name) # m
    PROVE  NamespaceIsRead(m)'
  <1>1. ConstructorsOf(m)' = ConstructorsOf(m) /\ namespaces'[m].gated = namespaces[m].gated
        BY Zenon DEF ConstructorsOf
  <1>2. ASSUME NEW k
        PROVE  /\ k \in Declared' /\ Home(k)' = m <=> k \in Declared /\ Home(k) = m
               /\ k \in Declared => text'[k] = text[k]
               /\ k \in Declared => \A entry : Records(entry, k)' <=> Records(entry, k)
    <2>1. /\ k \in Declared => k \in 1 .. n
          /\ k \in Declared' => k \in 1 .. n \/ k = n + 1
          /\ k \in 1 .. n => (k \in Declared' <=> k \in Declared)
          BY TextKept, Zenon
    <2>2. k \in 1 .. n => text'[k] = text[k] /\ Home(k)' = Home(k)
          BY TextKept, Zenon
    <2>3. k \in 1 .. n => \A entry : Records(entry, k)' <=> Records(entry, k)
          BY TextKept, Zenon
    <2>4. n + 1 \in Declared' <=> line.kind = "declaration"
          BY TextKept, Zenon
    <2>5. Home(n + 1)' = HomeOf(f, line.name)
          BY TextKept, Zenon
    <2>6. CASE k \in 1 .. n
          BY <2>1, <2>2, <2>3, <2>6, Zenon
    <2>7. CASE k = n + 1
      <3>1. ~(k \in Declared' /\ Home(k)' = m)
            BY <2>4, <2>5, <2>7, Zenon
      <3>2. k \notin Declared
        <4>1. k \notin 1 .. n
              BY <2>7 DEF Grows
        <4> QED
            BY <2>1, <4>1, Zenon
      <3> QED
          BY <3>1, <3>2, Zenon
    <2> QED
        BY <2>1, <2>6, <2>7, Zenon
  <1>3. PICK cs : cs = ConstructorsOf(m)
        OBVIOUS
  <1>4. /\ \E S : cs \in Seq(S)
        /\ \A i \in DOMAIN cs : \E k \in Declared : Home(k) = m /\ Records(cs[i], k)
        /\ \A i, j \in DOMAIN cs : cs[i].name = cs[j].name => i = j
        BY <1>3, Zenon DEF NamespaceIsRead
  <1>5. ASSUME NEW i \in DOMAIN cs
        PROVE  \E k \in Declared' : Home(k)' = m /\ Records(cs[i], k)'
        BY <1>2, <1>4, Zenon
  <1>6. namespaces'[m].gated <=>
           \E k \in Declared' : Home(k)' = m /\ text'[k].file # "core.tl"
    <2>1. namespaces[m].gated <=>
             \E k \in Declared : Home(k) = m /\ text[k].file # "core.tl"
          BY Zenon DEF NamespaceIsRead
    <2> QED
        BY <1>1, <1>2, <2>1, Zenon
  <1>7. ConstructorsOf(m)' = cs
        BY <1>1, <1>3, Zenon
  <1> QED
      BY <1>4, <1>5, <1>6, <1>7, Zenon DEF NamespaceIsRead

LEMMA DeclarationKept ==
    ASSUME NEW n, NEW f, NEW line, Grows(n, f, line), NEW k \in 1 .. n, NEW h, h = Home(k),
           DeclarationIsRead(k), h \in DOMAIN namespaces',
           \A i \in DOMAIN ConstructorsOf(h) :
              /\ i \in DOMAIN ConstructorsOf(h)'
              /\ ConstructorsOf(h)'[i] = ConstructorsOf(h)[i]
    PROVE  DeclarationIsRead(k)'
  <1>1. /\ text'[k] = text[k] /\ Home(k)' = h
        /\ \A entry : Records(entry, k)' <=> Records(entry, k)
        BY TextKept, Zenon
  <1>2. PICK i \in DOMAIN ConstructorsOf(h) : Records(ConstructorsOf(h)[i], k)
        BY Zenon DEF DeclarationIsRead
  <1>3. PICK entry : entry = ConstructorsOf(h)[i]
        OBVIOUS
  <1>4. i \in DOMAIN ConstructorsOf(h)' /\ ConstructorsOf(h)'[i] = entry /\ Records(entry, k)'
        BY <1>1, <1>2, <1>3, Zenon
  <1>5. WellFormed(text'[k].line.fields)
        BY <1>1, Zenon DEF DeclarationIsRead
  <1> QED
      BY <1>1, <1>4, <1>5, Zenon DEF DeclarationIsRead, ConstructorsOf

LEMMA TablesKept ==
    ASSUME NEW n, NEW f, NEW line, Grows(n, f, line), TablesRead, state # "error",
           namespaces' = namespaces, line.kind # "declaration"
    PROVE  TablesRead'
  <1>1. ASSUME NEW m \in DOMAIN namespaces PROVE NamespaceIsRead(m)'
        BY NamespaceKept, Zenon DEF TablesRead
  <1>2. ASSUME NEW k \in Declared' PROVE DeclarationIsRead(k)'
    <2>1. k \in 1 .. n /\ k \in Declared
          BY TextKept, Zenon
    <2>2. DeclarationIsRead(k)
          BY <2>1, Zenon DEF TablesRead
    <2>3. PICK h : h = Home(k)
          OBVIOUS
    <2>4. h \in DOMAIN namespaces' /\ ConstructorsOf(h)' = ConstructorsOf(h)
          BY <2>2, <2>3, Zenon DEF DeclarationIsRead, ConstructorsOf
    <2> QED
        BY <2>1, <2>2, <2>3, <2>4, DeclarationKept, Zenon
  <1> QED
      BY <1>1, <1>2, Zenon DEF TablesRead

-----------------------------------------------------------------------------
(* A declaration is read.                                                  *)
LEMMA HomeIsHome ==
    ASSUME NEW f \in DOMAIN LinesOf, NEW line \in LinesOf[f], line.kind = "declaration"
    PROVE  /\ line \in AllDeclarations
           /\ HomeOf(f, line.name) \in Homes
           /\ HomeOf(f, line.name) = "core" <=> f = "core.tl"
  <1>1. line \in DeclarationsIn(f) /\ line \in AllDeclarations
    <2>1. line \in DeclarationsIn(f)
          BY Zenon DEF DeclarationsIn
    <2> QED
        BY <2>1, Zenon DEF AllDeclarations
  <1>2. line.name[1] # "core" /\ (f = "core.tl" => line.name[1] = "")
        BY <1>1, NamesAssumption, Zenon
  <1>3. CASE line.name[1] # ""
    <2>1. line.name[1] \in {l.name[1] : l \in AllDeclarations} \ {""}
          BY <1>1, <1>3, Zenon
    <2> QED
        BY <1>1, <1>2, <1>3, <2>1, Zenon DEF Homes, HomeOf
  <1>4. CASE line.name[1] = ""
        BY <1>1, <1>4, Zenon DEF Homes, HomeOf
  <1> QED
      BY <1>3, <1>4, Zenon

LEMMA NewIs ==
    \A r, a, b, c, d : r = [name |-> a, id |-> b, isMethod |-> c, fields |-> d] =>
        r.name = a /\ r.id = b /\ r.isMethod = c /\ r.fields = d
  <1> QED
      OBVIOUS

LEMMA EntriesIs ==
    \A r, a, b : r = [constructors |-> a, gated |-> b] => r.constructors = a /\ r.gated = b
  <1> QED
      OBVIOUS

LEMMA AppendToTable ==
    \A s, e : (\E S : s \in Seq(S)) =>
        \E c \in Nat :
            /\ DOMAIN s = 1 .. c /\ DOMAIN Append(s, e) = 1 .. c + 1
            /\ \A i \in 1 .. c : Append(s, e)[i] = s[i]
            /\ Append(s, e)[c + 1] = e
            /\ \E S : Append(s, e) \in Seq(S)
  <1> SUFFICES ASSUME NEW s, NEW e, NEW S, s \in Seq(S)
               PROVE  \E c \in Nat :
                         /\ DOMAIN s = 1 .. c /\ DOMAIN Append(s, e) = 1 .. c + 1
                         /\ \A i \in 1 .. c : Append(s, e)[i] = s[i]
                         /\ Append(s, e)[c + 1] = e
                         /\ \E T : Append(s, e) \in Seq(T)
      BY Zenon
  <1>1. s \in Seq(S \cup {e})
        OBVIOUS
  <1>2. Append(s, e) \in Seq(S \cup {e})
        BY <1>1
  <1>3. /\ Len(s) \in Nat
        /\ DOMAIN s = 1 .. Len(s) /\ DOMAIN Append(s, e) = 1 .. Len(s) + 1
        /\ \A i \in 1 .. Len(s) : Append(s, e)[i] = s[i]
        /\ Append(s, e)[Len(s) + 1] = e
        BY <1>1
  <1> QED
      BY <1>2, <1>3, Zenon

(* The entries of a namespace before the declaration: of one that is not   *)
(* there yet, there are none.                                              *)
LEMMA EntriesAre ==
    ASSUME TablesRead, state # "error", NEW h
    PROVE  /\ \E S : Entries(h).constructors \in Seq(S)
           /\ \A i \in DOMAIN Entries(h).constructors :
                 \E k \in Declared : Home(k) = h /\ Records(Entries(h).constructors[i], k)
           /\ \A i, j \in DOMAIN Entries(h).constructors :
                 Entries(h).constructors[i].name = Entries(h).constructors[j].name => i = j
           /\ Entries(h).gated <=> \E k \in Declared : Home(k) = h /\ text[k].file # "core.tl"
           /\ h \in DOMAIN namespaces => Entries(h) = namespaces[h]
  <1>1. CASE h \in DOMAIN namespaces
    <2>1. NamespaceIsRead(h)
          BY <1>1, Zenon DEF TablesRead
    <2>2. Entries(h) = namespaces[h]
          BY <1>1, Zenon DEF Entries
    <2> QED
        BY <2>1, <2>2, Zenon DEF NamespaceIsRead, ConstructorsOf
  <1>2. CASE h \notin DOMAIN namespaces
    <2>1. Entries(h) = [constructors |-> <<>>, gated |-> FALSE]
          BY <1>2, Zenon DEF Entries
    <2>2. Entries(h).constructors = <<>> /\ Entries(h).gated = FALSE
          BY <2>1, EntriesIs, Zenon
    <2>3. \A k \in Declared : Home(k) # h
          BY <1>2, Zenon DEF TablesRead, DeclarationIsRead
    <2>4. <<>> \in Seq({}) /\ DOMAIN <<>> = {}
          OBVIOUS
    <2>5. ~Entries(h).gated
          BY <2>2, Zenon
    <2> QED
        BY <1>2, <2>2, <2>3, <2>4, <2>5, Zenon
  <1> QED
      BY <1>1, <1>2, Zenon

LEMMA TablesGrow ==
    ASSUME GeneratorTypes, TextOrder, Section, TablesRead, NEW line, ReadDeclaration(line)
    PROVE  TablesRead'
  <1>1. /\ ReadLine(line) /\ line.kind = "declaration" /\ ~Fails(line)
        /\ state = "reading" /\ file <= Len(Files) /\ line \in LinesOf[Files[file]]
        /\ state # "error" /\ isMethod' = isMethod
        BY Zenon DEF ReadDeclaration, ReadLine
  <1>2. PICK n \in Nat, f \in DOMAIN LinesOf : f = Files[file] /\ Grows(n, f, line)
        BY <1>1, ReadsALine, Zenon
  <1>3. PICK h : h = HomeOf(f, line.name)
        OBVIOUS
  <1>4. NamespaceOf(line.name) = h /\ (Flat # "core" <=> f # "core.tl")
    <2>1. Flat = IF f = "core.tl" THEN "core" ELSE "common"
          BY <1>2, Zenon DEF Flat
    <2>2. CASE line.name[1] = ""
          BY <1>3, <2>1, <2>2, Zenon DEF NamespaceOf, HomeOf
    <2>3. CASE line.name[1] # ""
          BY <1>3, <2>1, <2>3, Zenon DEF NamespaceOf, HomeOf
    <2> QED
        BY <2>2, <2>3, Zenon
  <1>5. h \in Homes
        BY <1>1, <1>2, <1>3, HomeIsHome, Zenon
  <1>6. PICK cs : cs = Entries(h).constructors
        OBVIOUS
  <1>7. PICK new : new = [name |-> line.name, id |-> line.id, isMethod |-> isMethod,
                          fields |-> ParseFields(line.fields)]
        OBVIOUS
  <1>8. PICK entry : entry = [constructors |-> Append(cs, new),
                              gated |-> Entries(h).gated \/ Flat # "core"]
        OBVIOUS
  <1>9. namespaces' = [m \in DOMAIN namespaces \cup {h} |->
                          IF m = h THEN entry ELSE namespaces[m]]
        BY <1>4, <1>6, <1>7, <1>8, Zenon DEF ReadDeclaration
  <1>10. /\ DOMAIN namespaces' = DOMAIN namespaces \cup {h}
         /\ \A m \in DOMAIN namespaces : m # h => namespaces'[m] = namespaces[m]
         /\ namespaces'[h] = entry
         BY <1>9, Zenon
  <1>11. /\ ConstructorsOf(h)' = Append(cs, new)
         /\ namespaces'[h].gated <=> Entries(h).gated \/ f # "core.tl"
    <2>1. entry.constructors = Append(cs, new)
          /\ entry.gated = (Entries(h).gated \/ Flat # "core")
          BY <1>8, EntriesIs, Zenon
    <2> QED
        BY <1>4, <1>10, <2>1, Zenon DEF ConstructorsOf
  <1>12. /\ \E S : cs \in Seq(S)
         /\ \A i \in DOMAIN cs : \E k \in Declared : Home(k) = h /\ Records(cs[i], k)
         /\ \A i, j \in DOMAIN cs : cs[i].name = cs[j].name => i = j
         /\ Entries(h).gated <=> \E k \in Declared : Home(k) = h /\ text[k].file # "core.tl"
         /\ h \in DOMAIN namespaces => ConstructorsOf(h) = cs
         BY <1>1, <1>6, EntriesAre, Zenon DEF ConstructorsOf
  <1>13. PICK c \in Nat :
             /\ DOMAIN cs = 1 .. c /\ DOMAIN Append(cs, new) = 1 .. c + 1
             /\ \A i \in 1 .. c : Append(cs, new)[i] = cs[i]
             /\ Append(cs, new)[c + 1] = new
             /\ \E S : Append(cs, new) \in Seq(S)
         BY <1>12, AppendToTable, Zenon
  <1>14. /\ new.name = line.name /\ new.id = line.id /\ new.isMethod = isMethod
         /\ new.fields = ParseFields(line.fields)
         BY <1>7, NewIs, Zenon
  <1>15. /\ n + 1 \in Declared' /\ Home(n + 1)' = h
         /\ text'[n + 1].line = line /\ text'[n + 1].file = f
    <2>1. n + 1 \in Declared' <=> line.kind = "declaration"
          BY <1>2, TextKept, Zenon
    <2>2. Home(n + 1)' = HomeOf(f, line.name)
          BY <1>2, TextKept, Zenon
    <2>3. text'[n + 1].line = line /\ text'[n + 1].file = f
          BY <1>2, Zenon DEF Grows
    <2> QED
        BY <1>1, <1>3, <2>1, <2>2, <2>3, Zenon
  <1>16. Records(new, n + 1)'
    <2>1. isMethod <=> InFunctions(f, n + 1)
          BY <1>1, <1>2, Zenon DEF Section, Grows
    <2>2. InFunctions(f, n + 1)' <=> InFunctions(f, n + 1)
          BY <1>2, SectionKept, UpToNext, Zenon
    <2>3. MethodAt(n + 1)' <=> InFunctions(f, n + 1)'
          BY <1>15, Zenon DEF MethodAt, InFunctions
    <2>4. new.isMethod <=> MethodAt(n + 1)'
          BY <1>14, <2>1, <2>2, <2>3, Zenon
    <2> QED
        BY <1>14, <1>15, <2>4, Zenon DEF Records
  <1>17. ASSUME NEW k \in Declared
         PROVE  /\ k \in Declared' /\ Home(k)' = Home(k) /\ text'[k] = text[k]
                /\ \A e : Records(e, k)' <=> Records(e, k)
    <2>1. k \in 1 .. n /\ k \in Declared'
          BY <1>2, TextKept, Zenon
    <2>2. Home(k)' = Home(k) /\ text'[k] = text[k]
          BY <1>2, <2>1, TextKept, Zenon
    <2>3. \A e : Records(e, k)' <=> Records(e, k)
          BY <1>2, <2>1, TextKept, Zenon
    <2> QED
        BY <2>1, <2>2, <2>3, Zenon
  <1>18. \A k \in Declared' : k \in Declared \/ k = n + 1
         BY <1>2, TextKept, Zenon
  <1>19. PICK cs2 : cs2 = Append(cs, new)
         OBVIOUS
  <1>20. /\ DOMAIN cs2 = 1 .. c + 1
         /\ \A i \in 1 .. c : cs2[i] = cs[i]
         /\ cs2[c + 1] = new
         /\ \A i \in 1 .. c + 1 : i \in 1 .. c \/ i = c + 1
         /\ \A i \in 1 .. c : i \in 1 .. c + 1
         /\ c + 1 \in 1 .. c + 1
    <2>1. \A i \in 1 .. c : i \in 1 .. c + 1
          OBVIOUS
    <2> QED
        BY <1>13, <1>19, <2>1, UpToNext, Zenon
  <1>21. NamespaceIsRead(h)'
    <2>1. ASSUME NEW i \in 1 .. c + 1
          PROVE  \E k \in Declared' : Home(k)' = h /\ Records(cs2[i], k)'
      <3>1. CASE i \in 1 .. c
        <4>1. PICK k \in Declared : Home(k) = h /\ Records(cs[i], k)
              BY <1>12, <1>13, <3>1, Zenon
        <4>2. cs2[i] = cs[i]
              BY <1>20, <3>1, Zenon
        <4> QED
            BY <1>17, <4>1, <4>2, Zenon
      <3>2. CASE i = c + 1
        <4>1. cs2[i] = new
              BY <1>20, <3>2, Zenon
        <4> QED
            BY <1>15, <1>16, <4>1, Zenon
      <3> QED
          BY <1>20, <3>1, <3>2, Zenon
    <2>2. \A i \in 1 .. c : cs[i].name # line.name
      <3>1. ~IsDuplicate(line)
            BY <1>1, Zenon DEF Fails
      <3> QED
          BY <1>4, <1>6, <1>13, <3>1, Zenon DEF IsDuplicate
    <2>3. ASSUME NEW i \in 1 .. c + 1, NEW j \in 1 .. c + 1, cs2[i].name = cs2[j].name
          PROVE  i = j
      <3>1. CASE i \in 1 .. c /\ j \in 1 .. c
            BY <1>12, <1>13, <1>20, <2>3, <3>1, Zenon
      <3>2. CASE i = c + 1 /\ j \in 1 .. c
            BY <1>14, <1>20, <2>2, <2>3, <3>2, Zenon
      <3>3. CASE i \in 1 .. c /\ j = c + 1
            BY <1>14, <1>20, <2>2, <2>3, <3>3, Zenon
      <3> QED
          BY <1>20, <3>1, <3>2, <3>3, Zenon
    <2>4. namespaces'[h].gated <=>
             \E k \in Declared' : Home(k)' = h /\ text'[k].file # "core.tl"
      <3>1. (\E k \in Declared' : Home(k)' = h /\ text'[k].file # "core.tl") <=>
               \/ \E k \in Declared : Home(k) = h /\ text[k].file # "core.tl"
               \/ f # "core.tl"
            BY <1>15, <1>17, <1>18, Zenon
      <3> QED
          BY <1>11, <1>12, <3>1, Zenon
    <2>5. ConstructorsOf(h)' = cs2 /\ \E S : cs2 \in Seq(S)
          BY <1>11, <1>13, <1>19, Zenon
    <2> QED
        BY <1>20, <2>1, <2>3, <2>4, <2>5, Zenon DEF NamespaceIsRead
  <1>22. ASSUME NEW m \in DOMAIN namespaces' PROVE NamespaceIsRead(m)'
    <2>1. CASE m = h
          BY <1>21, <2>1, Zenon
    <2>2. CASE m # h
      <3>1. NamespaceIsRead(m) /\ namespaces'[m] = namespaces[m]
            BY <1>1, <1>10, <2>2, Zenon DEF TablesRead
      <3>2. Grows(n, f, line) /\ (line.kind = "declaration" => HomeOf(f, line.name) # m)
            BY <1>2, <1>3, <2>2, Zenon
      <3> QED
          BY <3>1, <3>2, NamespaceKept
    <2> QED
        BY <2>1, <2>2, Zenon
  <1>23. ASSUME NEW k \in Declared' PROVE DeclarationIsRead(k)'
    <2>1. CASE k \in Declared
      <3>1. DeclarationIsRead(k) /\ k \in 1 .. n
            BY <1>1, <1>2, <2>1, TextKept, Zenon DEF TablesRead
      <3>2. PICK g : g = Home(k)
            OBVIOUS
      <3>3. g \in DOMAIN namespaces /\ g \in DOMAIN namespaces'
            BY <1>10, <3>1, <3>2, Zenon DEF DeclarationIsRead
      <3>4. ASSUME NEW i \in DOMAIN ConstructorsOf(g)
            PROVE  /\ i \in DOMAIN ConstructorsOf(g)'
                   /\ ConstructorsOf(g)'[i] = ConstructorsOf(g)[i]
        <4>1. CASE g = h
          <5>1. ConstructorsOf(g) = cs /\ ConstructorsOf(g)' = cs2
                BY <1>11, <1>12, <1>19, <3>3, <4>1, Zenon
          <5> QED
              BY <1>13, <1>20, <5>1, Zenon
        <4>2. CASE g # h
          <5>1. ConstructorsOf(g)' = ConstructorsOf(g)
                BY <1>10, <3>3, <4>2, Zenon DEF ConstructorsOf
          <5> QED
              BY <5>1, Zenon
        <4> QED
            BY <4>1, <4>2, Zenon
      <3> QED
          BY <1>2, <3>1, <3>2, <3>3, <3>4, DeclarationKept, Zenon
    <2>2. CASE k = n + 1
      <3>1. h \in DOMAIN namespaces' /\ ConstructorsOf(h)' = cs2
            BY <1>10, <1>11, <1>19, Zenon
      <3>2. c + 1 \in DOMAIN ConstructorsOf(h)' /\ ConstructorsOf(h)'[c + 1] = new
            BY <1>20, <3>1, Zenon
      <3>3. WellFormed(line.fields)
            BY <1>1, Zenon DEF Fails
      <3>4. WellFormed(text'[n + 1].line.fields)
            BY <1>15, <3>3, Zenon
      <3>5. DeclarationIsRead(n + 1)'
            BY <1>15, <1>16, <3>1, <3>2, <3>4, Zenon DEF DeclarationIsRead, ConstructorsOf
      <3> QED
          BY <2>2, <3>5, Zenon
    <2> QED
        BY <1>18, <2>1, <2>2, Zenon
  <1>24. IsFiniteSet(DOMAIN namespaces') /\ DOMAIN namespaces' \subseteq Homes
    <2>1. IsFiniteSet(DOMAIN namespaces) /\ DOMAIN namespaces \subseteq Homes
          BY <1>1, Zenon DEF TablesRead
    <2>2. IsFiniteSet(DOMAIN namespaces \cup {h})
          BY <2>1, FS_AddElement, Zenon
    <2>3. DOMAIN namespaces \cup {h} \subseteq Homes
          BY <1>5, <2>1, Zenon
    <2> QED
        BY <1>10, <2>2, <2>3, Zenon
  <1> QED
      BY <1>22, <1>23, <1>24, Zenon DEF TablesRead

-----------------------------------------------------------------------------
(* Every step keeps the invariant.                                         *)
LEMMA ReadTypes ==
    ASSUME GeneratorIInv, NEW line, ReadLine(line), state' \in {"reading", "error"}
    PROVE  GeneratorTypes' /\ TextOrder' /\ TablesWritten'
  <1>1. /\ state = "reading" /\ file' = file
        BY Zenon DEF ReadLine
  <1>2. file' \in Nat /\ file' > 0
    <2>1. file \in Nat /\ file > 0
          BY <1>1, Zenon DEF GeneratorIInv, GeneratorTypes
    <2> QED
        BY <1>1, <2>1, Zenon
  <1>3. text' \in Seq([file : DOMAIN LinesOf, line : AllLines]) /\ TextOrder'
        BY ReadsALine, Zenon DEF GeneratorIInv
  <1>4. /\ state' \in {"idle", "reading", "error", "written"}
        /\ state' # "idle" /\ state' # "written"
        BY Zenon
  <1>5. GeneratorTypes'
        BY <1>2, <1>3, <1>4, Zenon DEF GeneratorTypes
  <1> QED
      BY <1>3, <1>4, <1>5, Zenon DEF TablesWritten

LEMMA ReadGrows ==
    ASSUME GeneratorIInv, NEW line, ReadLine(line)
    PROVE  \E n \in Nat, f \in DOMAIN LinesOf :
               /\ Grows(n, f, line) /\ f = Files[file]' /\ f = Files[file]
               /\ state = "reading" /\ file <= Len(Files) /\ file' = file
               /\ Len(text') + 1 = n + 2 /\ Len(text) + 1 = n + 1
  <1>1. PICK n \in Nat, f \in DOMAIN LinesOf : f = Files[file] /\ Grows(n, f, line)
        BY ReadsALine, Zenon DEF GeneratorIInv
  <1>2. state = "reading" /\ file <= Len(Files) /\ file' = file
        BY Zenon DEF ReadLine
  <1>3. Len(text') = n + 1 /\ Len(text) = n
        BY <1>1, Zenon DEF Grows
  <1>4. Len(text') + 1 = n + 2 /\ Len(text) + 1 = n + 1
        BY <1>3
  <1> QED
      BY <1>1, <1>2, <1>4, Zenon

LEMMA ReadSectionInv ==
    ASSUME GeneratorIInv, NEW line, ReadSection(line)
    PROVE  GeneratorIInv'
  <1>1. /\ ReadLine(line) /\ line.kind \in {"functions", "types"}
        /\ isMethod' = (line.kind = "functions")
        /\ namespaces' = namespaces /\ state' = state
        BY Zenon DEF ReadSection
  <1>2. PICK n \in Nat, f \in DOMAIN LinesOf :
               /\ Grows(n, f, line) /\ f = Files[file]'
               /\ state = "reading" /\ Len(text') + 1 = n + 2
        BY <1>1, ReadGrows, Zenon
  <1>3. line.kind # "declaration" /\ state # "error" /\ state' \in {"reading", "error"}
        BY <1>1, <1>2, Zenon
  <1>4. GeneratorTypes' /\ TextOrder' /\ TablesWritten'
        BY <1>1, <1>3, ReadTypes, Zenon
  <1>5. TablesRead'
        BY <1>1, <1>2, <1>3, TablesKept, Zenon DEF GeneratorIInv
  <1>6. isMethod' <=> InFunctions(f, n + 2)'
    <2>1. CASE line.kind = "functions"
          BY <1>1, <1>2, <2>1, SectionRead, Zenon
    <2>2. CASE line.kind = "types"
      <3>1. line.kind # "functions"
            BY <2>2, Zenon
      <3>2. ~InFunctions(f, n + 2)'
            BY <1>2, <2>2, SectionRead, Zenon
      <3>3. ~isMethod'
            BY <1>1, <3>1, Zenon
      <3> QED
          BY <3>2, <3>3, Zenon
    <2> QED
        BY <1>1, <2>1, <2>2, Zenon
  <1>7. Section'
        BY <1>2, <1>6, Zenon DEF Section, InFunctions
  <1> QED
      BY <1>4, <1>5, <1>7, Zenon DEF GeneratorIInv

LEMMA SectionStays ==
    ASSUME GeneratorIInv, NEW line, ReadLine(line), line.kind \notin {"functions", "types"},
           isMethod' = isMethod
    PROVE  Section'
  <1>1. PICK n \in Nat, f \in DOMAIN LinesOf :
               /\ Grows(n, f, line) /\ f = Files[file]' /\ f = Files[file]
               /\ state = "reading" /\ file <= Len(Files)
               /\ Len(text') + 1 = n + 2 /\ Len(text) + 1 = n + 1
        BY ReadGrows, Zenon
  <1>2. isMethod <=> InFunctions(f, n + 1)
        BY <1>1, Zenon DEF GeneratorIInv, Section
  <1>3. InFunctions(f, n + 2)' <=> InFunctions(f, n + 1)
        BY <1>1, SectionRead, Zenon
  <1> QED
      BY <1>1, <1>2, <1>3, Zenon DEF Section, InFunctions

LEMMA ReadSkippedInv ==
    ASSUME GeneratorIInv, NEW line, ReadSkipped(line)
    PROVE  GeneratorIInv'
  <1>1. /\ ReadLine(line) /\ line.kind = "skipped" /\ isMethod' = isMethod
        /\ namespaces' = namespaces /\ state' = state
        BY Zenon DEF ReadSkipped
  <1>2. PICK n \in Nat, f \in DOMAIN LinesOf : Grows(n, f, line) /\ state = "reading"
        BY <1>1, ReadGrows, Zenon
  <1>3. /\ line.kind # "declaration" /\ line.kind \notin {"functions", "types"}
        /\ state # "error" /\ state' \in {"reading", "error"}
        BY <1>1, <1>2, Zenon
  <1>4. GeneratorTypes' /\ TextOrder' /\ TablesWritten'
        BY <1>1, <1>3, ReadTypes, Zenon
  <1>5. TablesRead'
        BY <1>1, <1>2, <1>3, TablesKept, Zenon DEF GeneratorIInv
  <1>6. Section'
        BY <1>1, <1>3, SectionStays, Zenon
  <1> QED
      BY <1>4, <1>5, <1>6, Zenon DEF GeneratorIInv

LEMMA ReadErrorInv ==
    ASSUME GeneratorIInv, NEW line, ReadError(line)
    PROVE  GeneratorIInv'
  <1>1. ReadLine(line) /\ state' = "error" /\ state' \in {"reading", "error"}
        BY Zenon DEF ReadError
  <1>2. GeneratorTypes' /\ TextOrder' /\ TablesWritten'
        BY <1>1, ReadTypes, Zenon
  <1>3. TablesRead' /\ Section'
        BY <1>1, Zenon DEF TablesRead, Section
  <1> QED
      BY <1>2, <1>3, Zenon DEF GeneratorIInv

LEMMA ReadDeclarationInv ==
    ASSUME GeneratorIInv, NEW line, ReadDeclaration(line)
    PROVE  GeneratorIInv'
  <1>1. /\ ReadLine(line) /\ line.kind = "declaration" /\ isMethod' = isMethod
        /\ state' = state /\ state = "reading"
        BY Zenon DEF ReadDeclaration, ReadLine
  <1>2. line.kind \notin {"functions", "types"} /\ state' \in {"reading", "error"}
        BY <1>1, Zenon
  <1>3. GeneratorTypes' /\ TextOrder' /\ TablesWritten'
        BY <1>1, <1>2, ReadTypes, Zenon
  <1>4. TablesRead'
        BY TablesGrow, Zenon DEF GeneratorIInv
  <1>5. Section'
        BY <1>1, <1>2, SectionStays, Zenon
  <1> QED
      BY <1>3, <1>4, <1>5, Zenon DEF GeneratorIInv

LEMMA TablesSame ==
    ASSUME TablesRead, namespaces' = namespaces, text' = text, state # "error"
    PROVE  TablesRead'
  <1>1. ASSUME NEW k PROVE Home(k)' = Home(k) /\ (MethodAt(k)' <=> MethodAt(k))
        BY Zenon DEF Home, MethodAt, InFunctions
  <1>2. ASSUME NEW e, NEW k PROVE Records(e, k)' <=> Records(e, k)
        BY <1>1, Zenon DEF Records
  <1>3. Declared' = Declared
        BY Zenon DEF Declared
  <1>4. \A m : ConstructorsOf(m)' = ConstructorsOf(m)
        BY Zenon DEF ConstructorsOf
  <1>5. ASSUME NEW m, NamespaceIsRead(m)
        PROVE  NamespaceIsRead(m)'
    <2>1. PICK cs : cs = ConstructorsOf(m)
          OBVIOUS
    <2>2. /\ \E S : cs \in Seq(S)
          /\ \A i \in DOMAIN cs : \E k \in Declared : Home(k) = m /\ Records(cs[i], k)
          /\ \A i, j \in DOMAIN cs : cs[i].name = cs[j].name => i = j
          BY <1>5, <2>1, Zenon DEF NamespaceIsRead
    <2>3. ASSUME NEW i \in DOMAIN cs
          PROVE  \E k \in Declared' : Home(k)' = m /\ Records(cs[i], k)'
          BY <1>1, <1>2, <1>3, <2>2, Zenon
    <2>4. ConstructorsOf(m)' = cs
          BY <1>4, <2>1, Zenon
    <2>5. namespaces'[m].gated <=>
             \E k \in Declared' : Home(k)' = m /\ text'[k].file # "core.tl"
          BY <1>1, <1>3, <1>5, Zenon DEF NamespaceIsRead
    <2> QED
        BY <2>2, <2>3, <2>4, <2>5, Zenon DEF NamespaceIsRead
  <1>6. ASSUME NEW k, DeclarationIsRead(k)
        PROVE  DeclarationIsRead(k)'
    <2>1. PICK h : h = Home(k)
          OBVIOUS
    <2>2. PICK i \in DOMAIN ConstructorsOf(h) : Records(ConstructorsOf(h)[i], k)
          BY <1>6, <2>1, Zenon DEF DeclarationIsRead
    <2>3. PICK e : e = ConstructorsOf(h)[i]
          OBVIOUS
    <2>4. i \in DOMAIN ConstructorsOf(h)' /\ ConstructorsOf(h)'[i] = e /\ Records(e, k)'
          BY <1>2, <1>4, <2>2, <2>3, Zenon
    <2>5. h \in DOMAIN namespaces' /\ WellFormed(text'[k].line.fields) /\ Home(k)' = h
          BY <1>1, <1>6, <2>1, Zenon DEF DeclarationIsRead
    <2> QED
        BY <2>4, <2>5, Zenon DEF DeclarationIsRead, ConstructorsOf
  <1> QED
      BY <1>3, <1>5, <1>6, Zenon DEF TablesRead

LEMMA CreateInv ==
    ASSUME GeneratorIInv, Create
    PROVE  GeneratorIInv'
  <1>1. /\ state = "idle" /\ state' = "reading" /\ file' = 1
        /\ isMethod' = isMethod /\ namespaces' = namespaces /\ text' = text
        BY Zenon DEF Create
  <1>2. text = <<>> /\ isMethod = FALSE
        BY <1>1, Zenon DEF GeneratorIInv, GeneratorTypes
  <1>3. GeneratorTypes'
    <2>1. 1 \in Nat /\ 1 > 0
          OBVIOUS
    <2>2. text' \in Seq([file : DOMAIN LinesOf, line : AllLines])
          BY <1>1, Zenon DEF GeneratorIInv, GeneratorTypes
    <2>3. state' \in {"idle", "reading", "error", "written"} /\ state' # "idle"
          BY <1>1, Zenon
    <2> QED
        BY <1>1, <2>1, <2>2, <2>3, Zenon DEF GeneratorTypes
  <1>4. DOMAIN text' = {} /\ Len(text') + 1 = 1
        BY <1>1, <1>2
  <1>5. TextOrder'
        BY <1>4, Zenon DEF TextOrder
  <1>6. \A f : ~InFunctions(f, 1)'
    <2>1. \A j \in 1 .. 1 - 1 : FALSE
          OBVIOUS
    <2> QED
        BY <2>1, Zenon DEF InFunctions
  <1>7. Section'
    <2>1. PICK f : f = Files[file]'
          OBVIOUS
    <2>2. ~InFunctions(f, 1)'
          BY <1>6, Zenon
    <2>3. ~isMethod'
          BY <1>1, <1>2, Zenon
    <2> QED
        BY <1>4, <2>1, <2>2, <2>3, Zenon DEF Section, InFunctions
  <1>8. TablesRead'
        BY <1>1, TablesSame, Zenon DEF GeneratorIInv
  <1>9. TablesWritten'
        BY <1>1, Zenon DEF TablesWritten
  <1> QED
      BY <1>3, <1>5, <1>7, <1>8, <1>9, Zenon DEF GeneratorIInv

LEMMA NextFileInv ==
    ASSUME GeneratorIInv, NextFile
    PROVE  GeneratorIInv'
  <1>1. /\ state = "reading" /\ state' = "reading" /\ file' = file + 1
        /\ isMethod' = FALSE /\ namespaces' = namespaces /\ text' = text
        BY Zenon DEF NextFile
  <1>2. file \in Nat /\ file + 1 \in Nat /\ file + 1 > 0 /\ file <= file + 1
    <2>1. file \in Nat
          BY Zenon DEF GeneratorIInv, GeneratorTypes
    <2> QED
        BY <2>1
  <1>3. GeneratorTypes'
    <2>1. text' \in Seq([file : DOMAIN LinesOf, line : AllLines])
          BY <1>1, Zenon DEF GeneratorIInv, GeneratorTypes
    <2>2. state' \in {"idle", "reading", "error", "written"} /\ state' # "idle"
          BY <1>1, Zenon
    <2> QED
        BY <1>1, <1>2, <2>1, <2>2, Zenon DEF GeneratorTypes
  <1>4. ASSUME NEW k \in DOMAIN text
        PROVE  /\ text[k].line \in LinesOf[text[k].file]
               /\ \E p \in DOMAIN Files : p <= file /\ p <= file + 1 /\ p # file + 1
                                          /\ text[k].file = Files[p]
    <2>1. PICK p \in DOMAIN Files : p <= file /\ text[k].file = Files[p]
          BY Zenon DEF GeneratorIInv, TextOrder
    <2>2. p \in Nat
      <3>1. Files \in Seq(DOMAIN LinesOf)
            BY FilesAssumption, Zenon
      <3> QED
          BY <3>1
    <2>3. p <= file + 1 /\ p # file + 1
          BY <1>2, <2>1, <2>2
    <2> QED
        BY <2>1, <2>3, Zenon DEF GeneratorIInv, TextOrder
  <1>5. TextOrder'
        BY <1>1, <1>4, Zenon DEF TextOrder
  <1>6. Section'
    <2> SUFFICES ASSUME file' <= Len(Files)
                 PROVE  ~InFunctions(Files[file], Len(text) + 1)'
        BY <1>1, Zenon DEF Section
    <2>1. PICK n, f : n = Len(text) /\ f = Files[file + 1]
          OBVIOUS
    <2>2. file + 1 \in DOMAIN Files
      <3>1. Files \in Seq(DOMAIN LinesOf)
            BY FilesAssumption, Zenon
      <3>2. file + 1 <= Len(Files)
            BY <1>1, Zenon
      <3> QED
          BY <1>2, <3>1, <3>2
    <2>3. \A k \in DOMAIN text : text[k].file # f
          BY <1>4, <2>1, <2>2, FilesAssumption, Zenon
    <2>4. \A k \in 1 .. (n + 1) - 1 : k \in DOMAIN text
      <3>1. text \in Seq([file : DOMAIN LinesOf, line : AllLines])
            BY Zenon DEF GeneratorIInv, GeneratorTypes
      <3> QED
          BY <2>1, <3>1
    <2>5. ~InFunctions(f, n + 1)'
      <3>1. PICK i : i = n + 1
            OBVIOUS
      <3>2. \A k \in 1 .. i - 1 : k \in DOMAIN text
            BY <2>4, <3>1
      <3>4. \A k \in 1 .. i - 1 : text[k].file # f
            BY <2>3, <3>2, Zenon
      <3>3. ~InFunctions(f, i)'
            BY <1>1, <3>4, Zenon DEF InFunctions
      <3> QED
          BY <3>1, <3>3, Zenon
    <2> QED
        BY <1>1, <2>1, <2>5, Zenon DEF InFunctions
  <1>7. TablesRead'
        BY <1>1, TablesSame, Zenon DEF GeneratorIInv
  <1>8. TablesWritten'
        BY <1>1, Zenon DEF TablesWritten
  <1> QED
      BY <1>3, <1>5, <1>6, <1>7, <1>8, Zenon DEF GeneratorIInv

LEMMA OutputIs ==
    \A r, a, b : r = [kind |-> a, of |-> b] => r.of = b
  <1> QED
      OBVIOUS

LEMMA WriteInv ==
    ASSUME GeneratorIInv, Write
    PROVE  GeneratorIInv'
  <1>1. /\ state = "reading" /\ state' = "written" /\ file' = file
        /\ namespaces' = namespaces /\ text' = text
        BY Zenon DEF Write
  <1>2. GeneratorTypes'
    <2>1. text' \in Seq([file : DOMAIN LinesOf, line : AllLines]) /\ file' \in Nat
          BY <1>1, Zenon DEF GeneratorIInv, GeneratorTypes
    <2>2. /\ state' \in {"idle", "reading", "error", "written"}
          /\ state' # "idle" /\ state' # "reading"
          BY <1>1, Zenon
    <2> QED
        BY <2>1, <2>2, Zenon DEF GeneratorTypes
  <1>3. TextOrder'
        BY <1>1, Zenon DEF GeneratorIInv, TextOrder
  <1>4. Section'
        BY <1>1, Zenon DEF Section
  <1>5. TablesRead'
        BY <1>1, TablesSame, Zenon DEF GeneratorIInv
  <1>6. TablesWritten'
    <2>1. PICK tables : tables = [n \in DOMAIN namespaces |->
                       [gated |-> namespaces[n].gated, schema |-> ById(ConstructorsOf(n)),
                        methods |-> Methods(ById(ConstructorsOf(n)))]]
          OBVIOUS
    <2>2. output' = [kind |-> "tables", of |-> tables]
          BY <2>1, Zenon DEF Write, ConstructorsOf
    <2>3. output'.of = tables
          BY <2>2, OutputIs, Zenon
    <2> QED
        BY <1>1, <2>1, <2>3, Zenon DEF TablesWritten, ConstructorsOf
  <1> QED
      BY <1>2, <1>3, <1>4, <1>5, <1>6, Zenon DEF GeneratorIInv

LEMMA StutterInv ==
    ASSUME GeneratorIInv, UNCHANGED generatorVars
    PROVE  GeneratorIInv'
  <1>1. /\ file' = file /\ isMethod' = isMethod /\ namespaces' = namespaces
        /\ output' = output /\ state' = state /\ text' = text
        BY Zenon DEF generatorVars
  <1>2. GeneratorTypes' /\ TextOrder'
        BY <1>1, Zenon DEF GeneratorIInv, GeneratorTypes, TextOrder
  <1>3. Section'
        BY <1>1, Zenon DEF GeneratorIInv, Section, InFunctions
  <1>4. TablesRead'
    <2>1. CASE state = "error"
          BY <1>1, <2>1, Zenon DEF TablesRead
    <2>2. CASE state # "error"
          BY <1>1, <2>2, TablesSame, Zenon DEF GeneratorIInv
    <2> QED
        BY <2>1, <2>2, Zenon
  <1>5. TablesWritten'
        BY <1>1, Zenon DEF GeneratorIInv, TablesWritten, ConstructorsOf
  <1> QED
      BY <1>2, <1>3, <1>4, <1>5, Zenon DEF GeneratorIInv

LEMMA InitInv ==
    ASSUME GeneratorInit
    PROVE  GeneratorIInv
  <1>1. /\ file = 0 /\ isMethod = FALSE /\ namespaces = << >> /\ text = <<>> /\ state = "idle"
        BY Zenon DEF GeneratorInit
  <1>2. DOMAIN << >> = {} /\ 0 \in Nat /\ \A S : << >> \in Seq(S)
        OBVIOUS
  <1>3. GeneratorTypes
        BY <1>1, <1>2, Zenon DEF GeneratorTypes
  <1>4. TextOrder /\ Section /\ TablesWritten
        BY <1>1, <1>2, Zenon DEF TextOrder, Section, TablesWritten
  <1>5. TablesRead
    <2>1. IsFiniteSet({})
          BY FS_EmptySet
    <2> QED
        BY <1>1, <1>2, <2>1, Zenon DEF TablesRead, Declared
  <1> QED
      BY <1>3, <1>4, <1>5, Zenon DEF GeneratorIInv

LEMMA GeneratorInvariance == GeneratorSpec => []GeneratorIInv
  <1>1. GeneratorInit => GeneratorIInv
        BY InitInv
  <1>2. GeneratorIInv /\ [GeneratorNext]_generatorVars => GeneratorIInv'
    <2> SUFFICES ASSUME GeneratorIInv, [GeneratorNext]_generatorVars
                 PROVE  GeneratorIInv'
        OBVIOUS
    <2>1. CASE Create
          BY <2>1, CreateInv
    <2>2. CASE NextFile
          BY <2>2, NextFileInv
    <2>3. CASE Write
          BY <2>3, WriteInv
    <2>4. ASSUME NEW line, ReadSection(line)
          PROVE  GeneratorIInv'
          BY <2>4, ReadSectionInv
    <2>5. ASSUME NEW line, ReadSkipped(line)
          PROVE  GeneratorIInv'
          BY <2>5, ReadSkippedInv
    <2>6. ASSUME NEW line, ReadError(line)
          PROVE  GeneratorIInv'
          BY <2>6, ReadErrorInv
    <2>7. ASSUME NEW line, ReadDeclaration(line)
          PROVE  GeneratorIInv'
          BY <2>7, ReadDeclarationInv
    <2>8. CASE UNCHANGED generatorVars
          BY <2>8, StutterInv
    <2> QED
        BY <2>1, <2>2, <2>3, <2>4, <2>5, <2>6, <2>7, <2>8, Zenon DEF GeneratorNext
  <1> QED
      BY <1>1, <1>2, PTL DEF GeneratorSpec

-----------------------------------------------------------------------------
(* What is written answers for what was read.                              *)
LEMMA DeclaredLine ==
    ASSUME GeneratorIInv, NEW k \in Declared
    PROVE  /\ text[k].line \in AllDeclarations
           /\ text[k].line.id \in Nat /\ text[k].line.name \in DeclaredNames
           /\ Home(k) \in Homes
           /\ Home(k) = "core" <=> text[k].file = "core.tl"
  <1>1. k \in DOMAIN text /\ text[k].line.kind = "declaration"
        BY Zenon DEF Declared
  <1>2. PICK line, f : line = text[k].line /\ f = text[k].file
        OBVIOUS
  <1>3. f \in DOMAIN LinesOf
    <2>1. Files \in Seq(DOMAIN LinesOf)
          BY FilesAssumption, Zenon
    <2>2. PICK p \in DOMAIN Files : f = Files[p]
          BY <1>1, <1>2, Zenon DEF GeneratorIInv, TextOrder
    <2>3. Files[p] \in DOMAIN LinesOf
          BY <2>1, <2>2
    <2> QED
        BY <2>2, <2>3, Zenon
  <1>4. line \in LinesOf[f] /\ line.kind = "declaration"
        BY <1>1, <1>2, Zenon DEF GeneratorIInv, TextOrder
  <1>5. /\ line \in AllDeclarations
        /\ HomeOf(f, line.name) \in Homes
        /\ HomeOf(f, line.name) = "core" <=> f = "core.tl"
        BY <1>3, <1>4, HomeIsHome, Zenon
  <1>6. line.id \in Nat /\ line.name \in DeclaredNames
        BY <1>5, NamesAssumption, Zenon DEF DeclaredNames
  <1> QED
      BY <1>2, <1>5, <1>6, Zenon DEF Home

Answers(hit, chosen) ==
    /\ hit.found <=> \E k \in chosen : TRUE
    /\ hit.found => \E k \in chosen : Records(hit.entry, k)

WithId(homes, id) == {k \in Declared : Home(k) \in homes /\ text[k].line.id = id}
WithName(homes, name) ==
    {k \in Declared : Home(k) \in homes /\ text[k].line.name = name /\ MethodAt(k)}

LEMMA NamespaceAnswers ==
    ASSUME GeneratorIInv, state # "error", NEW n \in DOMAIN namespaces,
           NEW wanted \in Nat, NEW called \in DeclaredNames, NEW sorted,
           sorted = ById(ConstructorsOf(n))
    PROVE  /\ Answers(SearchById(sorted, wanted), WithId({n}, wanted))
           /\ Answers(SearchByName(Methods(sorted), called), WithName({n}, called))
  <1>1. PICK cs : cs = ConstructorsOf(n)
        OBVIOUS
  <1>2. /\ \E S : cs \in Seq(S)
        /\ \A i \in DOMAIN cs : \E k \in Declared : Home(k) = n /\ Records(cs[i], k)
        BY <1>1, Zenon DEF GeneratorIInv, TablesRead, NamespaceIsRead
  <1>3. PICK size \in Nat : DOMAIN cs = 1 .. size
    <2>1. PICK S : cs \in Seq(S)
          BY <1>2, Zenon
    <2> QED
        BY <2>1, SequencesDomain, Zenon
  <1>4. \A i \in 1 .. size : cs[i].id \in Nat /\ cs[i].name \in DeclaredNames
        BY <1>2, <1>3, DeclaredLine, Zenon DEF Records
  <1>5. ASSUME NEW k \in Declared, Home(k) = n
        PROVE  \E i \in 1 .. size : Records(cs[i], k)
        BY <1>1, <1>3, <1>5, Zenon DEF GeneratorIInv, TablesRead, DeclarationIsRead
  <1>6. sorted = ById(cs)
        BY <1>1, Zenon
  <1>7. PICK byId, byName :
              byId = SearchById(sorted, wanted) /\ byName = SearchByName(Methods(sorted), called)
        OBVIOUS
  <1>8. HitsEntry(byId, size, cs, wanted) /\ HitsMethod(byName, size, cs, called)
        BY <1>3, <1>4, <1>6, <1>7, TablesAnswer, Zenon
  <1>9. /\ byId.found <=> \E i \in 1 .. size : cs[i].id = wanted
        /\ byId.found => \E i \in 1 .. size : cs[i].id = wanted /\ byId.entry = cs[i]
        BY <1>8, Zenon DEF HitsEntry
  <1>10. /\ byName.found <=> \E i \in 1 .. size : cs[i].isMethod /\ cs[i].name = called
         /\ byName.found => \E i \in 1 .. size : /\ cs[i].isMethod /\ cs[i].name = called
                                                /\ byName.entry = cs[i]
         BY <1>8, Zenon DEF HitsMethod
  <1>11. ASSUME NEW i \in 1 .. size, cs[i].id = wanted
         PROVE  \E k \in WithId({n}, wanted) : Records(cs[i], k)
         BY <1>2, <1>3, <1>11, Zenon DEF Records, WithId
  <1>12. ASSUME NEW k \in WithId({n}, wanted)
         PROVE  \E i \in 1 .. size : cs[i].id = wanted
         BY <1>5, Zenon DEF Records, WithId
  <1>13. Answers(byId, WithId({n}, wanted))
         BY <1>9, <1>11, <1>12, Zenon DEF Answers
  <1>14. ASSUME NEW i \in 1 .. size, cs[i].isMethod, cs[i].name = called
         PROVE  \E k \in WithName({n}, called) : Records(cs[i], k)
    <2>1. PICK k \in Declared : Home(k) = n /\ Records(cs[i], k)
          BY <1>2, <1>3, Zenon
    <2>2. MethodAt(k) /\ text[k].line.name = called
          BY <1>14, <2>1, Zenon DEF Records
    <2> QED
        BY <2>1, <2>2, Zenon DEF WithName
  <1>15. ASSUME NEW k \in WithName({n}, called)
         PROVE  \E i \in 1 .. size : cs[i].isMethod /\ cs[i].name = called
    <2>1. k \in Declared /\ Home(k) = n /\ text[k].line.name = called /\ MethodAt(k)
          BY Zenon DEF WithName
    <2>2. PICK i \in 1 .. size : Records(cs[i], k)
          BY <1>5, <2>1, Zenon
    <2> QED
        BY <2>1, <2>2, Zenon DEF Records
  <1>16. Answers(byName, WithName({n}, called))
         BY <1>10, <1>14, <1>15, Zenon DEF Answers
  <1> QED
      BY <1>7, <1>13, <1>16, Zenon

LEMMA WrittenIs ==
    \A r, a, b, c : r = [gated |-> a, schema |-> b, methods |-> c] =>
        r.gated = a /\ r.schema = b /\ r.methods = c
  <1> QED
      OBVIOUS

LEMMA TablesAre ==
    ASSUME GeneratorIInv, state = "written"
    PROVE  /\ DOMAIN output.of = DOMAIN namespaces
           /\ \A n \in DOMAIN namespaces :
                 /\ output.of[n].gated = namespaces[n].gated
                 /\ output.of[n].schema = ById(ConstructorsOf(n))
                 /\ output.of[n].methods = Methods(ById(ConstructorsOf(n)))
  <1>1. output.of = [n \in DOMAIN namespaces |->
                       [gated |-> namespaces[n].gated, schema |-> ById(ConstructorsOf(n)),
                        methods |-> Methods(ById(ConstructorsOf(n)))]]
        BY Zenon DEF GeneratorIInv, TablesWritten
  <1>2. ASSUME NEW n \in DOMAIN namespaces
        PROVE  output.of[n] =
                  [gated |-> namespaces[n].gated, schema |-> ById(ConstructorsOf(n)),
                   methods |-> Methods(ById(ConstructorsOf(n)))]
        BY <1>1, Zenon
  <1>3. DOMAIN output.of = DOMAIN namespaces
        BY <1>1, Zenon
  <1>4. ASSUME NEW n \in DOMAIN namespaces
        PROVE  /\ output.of[n].gated = namespaces[n].gated
               /\ output.of[n].schema = ById(ConstructorsOf(n))
               /\ output.of[n].methods = Methods(ById(ConstructorsOf(n)))
    <2>1. PICK r, a, b, c :
                r = output.of[n] /\ a = namespaces[n].gated /\ b = ById(ConstructorsOf(n))
                /\ c = Methods(ById(ConstructorsOf(n)))
          OBVIOUS
    <2>2. r = [gated |-> a, schema |-> b, methods |-> c]
          BY <1>2, <2>1, Zenon
    <2>3. r.gated = a /\ r.schema = b /\ r.methods = c
          BY <2>2, WrittenIs, Zenon
    <2> QED
        BY <2>1, <2>3, Zenon
  <1> QED
      BY <1>3, <1>4, Zenon

(* A namespace is compiled exactly when its declarations belong to the     *)
(* schema of the build.                                                    *)
LEMMA CompiledAre ==
    ASSUME GeneratorIInv, state = "written", NEW enabled
    PROVE  /\ Compiled(enabled) \subseteq DOMAIN namespaces
           /\ \A k \in Declared : Home(k) \in Compiled(enabled) <=>
                 text[k].file = "core.tl" \/ Home(k) \in enabled
  <1>1. state # "error"
        BY Zenon
  <1>2. \A n : n \in Compiled(enabled) <=>
            n \in DOMAIN namespaces /\ (namespaces[n].gated => n \in enabled)
        BY TablesAre, Zenon DEF Compiled
  <1>3. ASSUME NEW k \in Declared
        PROVE  Home(k) \in Compiled(enabled) <=>
                  text[k].file = "core.tl" \/ Home(k) \in enabled
    <2>1. Home(k) \in DOMAIN namespaces
          BY <1>1, Zenon DEF GeneratorIInv, TablesRead, DeclarationIsRead
    <2>2. namespaces[Home(k)].gated <=>
             \E l \in Declared : Home(l) = Home(k) /\ text[l].file # "core.tl"
          BY <1>1, <2>1, Zenon DEF GeneratorIInv, TablesRead, NamespaceIsRead
    <2>3. text[k].file # "core.tl" => namespaces[Home(k)].gated
          BY <2>2, Zenon
    <2>4. text[k].file = "core.tl" => ~namespaces[Home(k)].gated
          BY <2>2, DeclaredLine, Zenon
    <2> QED
        BY <1>2, <2>1, <2>3, <2>4, Zenon
  <1> QED
      BY <1>2, <1>3, Zenon

FirstAmong(first, hits, D) ==
    /\ first.found <=> D # {}
    /\ first.found => \E n \in D : first = hits[n]

LEMMA FirstHit ==
    ASSUME GeneratorIInv, state = "written", NEW enabled, NEW D, D \subseteq Compiled(enabled),
           NEW hits, DOMAIN hits = D, hits = [n \in D |-> hits[n]],
           \A n \in D : hits[n].found
    PROVE  FirstAmong(FirstOf(hits), hits, D)
  <1>1. IsFiniteSet(DOMAIN namespaces) /\ DOMAIN namespaces \subseteq Homes
        BY Zenon DEF GeneratorIInv, TablesRead
  <1>2. D \in SUBSET (DOMAIN namespaces)
        BY CompiledAre, Zenon
  <1>3. IsFiniteSet(D) /\ D \subseteq Homes
        BY <1>1, <1>2, FS_Subset, Zenon
  <1>4. hits = [n \in DOMAIN hits |-> hits[n]]
        BY Zenon
  <1>5. /\ D = {} => FirstOf(hits) = NotFound
        /\ D # {} => \E n \in D : FirstOf(hits) = hits[n]
        BY <1>3, <1>4, FirstOfIs, Zenon
  <1>6. NotFound.found = FALSE
        BY DEF NotFound
  <1> QED
      BY <1>5, <1>6, Zenon DEF FirstAmong

LEMMA LookupSchemaIs ==
    ASSUME GeneratorIInv, state = "written", NEW enabled, NEW l \in Declared,
           NEW wanted, wanted = text[l].line.id
    PROVE  Answers(LookupSchema(wanted, enabled), WithId(Compiled(enabled), wanted))
  <1> DEFINE found(n) == SearchById(output.of[n].schema, wanted)
             D == {n \in Compiled(enabled) : found(n).found}
             hits == [n \in D |-> found(n)]
  <1>1. LookupSchema(wanted, enabled) = FirstOf(hits)
        BY Zenon DEF LookupSchema
  <1>2. ASSUME NEW n \in Compiled(enabled)
        PROVE  Answers(found(n), WithId({n}, wanted))
    <2>1. n \in DOMAIN namespaces
          BY CompiledAre, Zenon
    <2>2. PICK sorted : sorted = ById(ConstructorsOf(n))
          OBVIOUS
    <2>3. found(n) = SearchById(sorted, wanted)
          BY <2>1, <2>2, TablesAre, Zenon
    <2>4. text[l].line.id \in Nat /\ text[l].line.name \in DeclaredNames /\ state # "error"
          BY DeclaredLine, Zenon
    <2>5. Answers(SearchById(sorted, wanted), WithId({n}, wanted))
          BY <2>1, <2>2, <2>4, NamespaceAnswers, Zenon
    <2> QED
        BY <2>3, <2>5, Zenon
  <1> HIDE DEF found
  <1>3. /\ \A n \in D : n \in Compiled(enabled) /\ hits[n] = found(n) /\ found(n).found
        /\ D \subseteq Compiled(enabled) /\ DOMAIN hits = D
        BY Zenon
  <1>4. hits = [n \in D |-> hits[n]] /\ \A n \in D : hits[n].found
        BY <1>3, Zenon
  <1>5. \A n \in Compiled(enabled) : found(n).found => n \in D
        BY Zenon
  <1> HIDE DEF D, hits
  <1>6. PICK first : first = FirstOf(hits)
        OBVIOUS
  <1>7. FirstAmong(first, hits, D)
        BY <1>3, <1>4, <1>6, FirstHit, Zenon
  <1>8. ASSUME first.found
        PROVE  \E k \in WithId(Compiled(enabled), wanted) : Records(first.entry, k)
    <2>1. PICK n \in D : first = hits[n]
          BY <1>7, <1>8, Zenon DEF FirstAmong
    <2>2. first = found(n) /\ found(n).found /\ n \in Compiled(enabled)
          BY <1>3, <2>1, Zenon
    <2>3. PICK k \in WithId({n}, wanted) : Records(first.entry, k)
          BY <1>2, <2>2, Zenon DEF Answers
    <2>4. k \in WithId(Compiled(enabled), wanted)
          BY <2>2, Zenon DEF WithId
    <2> QED
        BY <2>3, <2>4, Zenon
  <1>9. ASSUME NEW k \in WithId(Compiled(enabled), wanted)
        PROVE  first.found
    <2>1. PICK n : n = Home(k)
          OBVIOUS
    <2>2. n \in Compiled(enabled) /\ k \in WithId({n}, wanted)
          BY <2>1, Zenon DEF WithId
    <2>3. found(n).found
          BY <1>2, <2>2, Zenon DEF Answers
    <2>4. D # {}
          BY <1>5, <2>2, <2>3, Zenon
    <2> QED
        BY <1>7, <2>4, Zenon DEF FirstAmong
  <1>10. Answers(first, WithId(Compiled(enabled), wanted))
         BY <1>8, <1>9, Zenon DEF Answers
  <1> QED
      BY <1>1, <1>6, <1>10, Zenon

LEMMA FindMethodIs ==
    ASSUME GeneratorIInv, state = "written", NEW enabled, NEW l \in Declared,
           NEW called, called = text[l].line.name
    PROVE  Answers(FindMethod(called, enabled), WithName(Compiled(enabled), called))
  <1> DEFINE found(n) == SearchByName(output.of[n].methods, called)
             D == {n \in Compiled(enabled) : found(n).found}
             hits == [n \in D |-> found(n)]
  <1>1. FindMethod(called, enabled) = FirstOf(hits)
        BY Zenon DEF FindMethod
  <1>2. ASSUME NEW n \in Compiled(enabled)
        PROVE  Answers(found(n), WithName({n}, called))
    <2>1. n \in DOMAIN namespaces
          BY CompiledAre, Zenon
    <2>2. PICK sorted : sorted = ById(ConstructorsOf(n))
          OBVIOUS
    <2>3. found(n) = SearchByName(Methods(sorted), called)
          BY <2>1, <2>2, TablesAre, Zenon
    <2>4. text[l].line.id \in Nat /\ text[l].line.name \in DeclaredNames /\ state # "error"
          BY DeclaredLine, Zenon
    <2>5. Answers(SearchByName(Methods(sorted), called), WithName({n}, called))
          BY <2>1, <2>2, <2>4, NamespaceAnswers, Zenon
    <2> QED
        BY <2>3, <2>5, Zenon
  <1> HIDE DEF found
  <1>3. /\ \A n \in D : n \in Compiled(enabled) /\ hits[n] = found(n) /\ found(n).found
        /\ D \subseteq Compiled(enabled) /\ DOMAIN hits = D
        BY Zenon
  <1>4. hits = [n \in D |-> hits[n]] /\ \A n \in D : hits[n].found
        BY <1>3, Zenon
  <1>5. \A n \in Compiled(enabled) : found(n).found => n \in D
        BY Zenon
  <1> HIDE DEF D, hits
  <1>6. PICK first : first = FirstOf(hits)
        OBVIOUS
  <1>7. FirstAmong(first, hits, D)
        BY <1>3, <1>4, <1>6, FirstHit, Zenon
  <1>8. ASSUME first.found
        PROVE  \E k \in WithName(Compiled(enabled), called) : Records(first.entry, k)
    <2>1. PICK n \in D : first = hits[n]
          BY <1>7, <1>8, Zenon DEF FirstAmong
    <2>2. first = found(n) /\ found(n).found /\ n \in Compiled(enabled)
          BY <1>3, <2>1, Zenon
    <2>3. PICK k \in WithName({n}, called) : Records(first.entry, k)
          BY <1>2, <2>2, Zenon DEF Answers
    <2>4. k \in WithName(Compiled(enabled), called)
          BY <2>2, Zenon DEF WithName
    <2> QED
        BY <2>3, <2>4, Zenon
  <1>9. ASSUME NEW k \in WithName(Compiled(enabled), called)
        PROVE  first.found
    <2>1. PICK n : n = Home(k)
          OBVIOUS
    <2>2. n \in Compiled(enabled) /\ k \in WithName({n}, called)
          BY <2>1, Zenon DEF WithName
    <2>3. found(n).found
          BY <1>2, <2>2, Zenon DEF Answers
    <2>4. D # {}
          BY <1>5, <2>2, <2>3, Zenon
    <2> QED
        BY <1>7, <2>4, Zenon DEF FirstAmong
  <1>10. Answers(first, WithName(Compiled(enabled), called))
         BY <1>8, <1>9, Zenon DEF Answers
  <1> QED
      BY <1>1, <1>6, <1>10, Zenon

-----------------------------------------------------------------------------
LEMMA DeclarationIs ==
    \A r, a, b, c : r = [file |-> a, line |-> b, method |-> c] =>
        r.file = a /\ r.line = b /\ r.method = c
  <1> QED
      OBVIOUS

LEMMA DeclarationsAre ==
    /\ \A d \in Declarations : \E k \in Declared :
          d.file = text[k].file /\ d.line = text[k].line /\ d.method = MethodAt(k)
    /\ \A k \in Declared : \E d \in Declarations :
          d.file = text[k].file /\ d.line = text[k].line /\ d.method = MethodAt(k)
  <1> DEFINE made(k) == [file |-> text[k].file, line |-> text[k].line, method |-> MethodAt(k)]
  <1>1. Declarations = {made(k) : k \in Declared}
        BY Zenon DEF Declarations, Declared
  <1>2. \A k \in Declared : /\ made(k).file = text[k].file /\ made(k).line = text[k].line
                            /\ made(k).method = MethodAt(k)
        BY DeclarationIs, Zenon
  <1> HIDE DEF made
  <1> QED
      BY <1>1, <1>2, Zenon

LEMMA FieldsLength ==
    ASSUME NEW n \in Nat, NEW f, DOMAIN f = 1 .. n, f = [i \in 1 .. n |-> f[i]]
    PROVE  Len(f) = n
  <1> DEFINE S == {f[i] : i \in 1 .. n}
  <1>1. f \in [1 .. n -> S]
        OBVIOUS
  <1> HIDE DEF S
  <1>2. f \in Seq(S)
        BY <1>1
  <1>3. DOMAIN f = 1 .. Len(f) /\ Len(f) \in Nat
        BY <1>2
  <1> QED
      BY <1>3

LEMMA FieldsAreCounted ==
    \A line \in AllDeclarations : Len(ParseFields(line.fields)) = Len(line.fields)
  <1> SUFFICES ASSUME NEW line \in AllDeclarations, NEW tokens, tokens = line.fields
               PROVE  Len(ParseFields(tokens)) = Len(tokens)
      BY Zenon
  <1>1. PICK S : tokens \in Seq(S)
        BY FieldsAssumption, Zenon
  <1>2. PICK n \in Nat : DOMAIN tokens = 1 .. n /\ n = Len(tokens)
        BY <1>1
  <1>3. DOMAIN ParseFields(tokens) = 1 .. n
        BY <1>2, FieldsAre, Zenon
  <1>4. ParseFields(tokens) = [i \in 1 .. n |-> ParseFields(tokens)[i]]
    <2> DEFINE parsed(i) == [name |-> tokens[i].name, ty |-> tokens[i].ty,
         bit |-> tokens[i].bit,
         flagsField |->
            IF IsWord(tokens[i]) THEN NumberOf(tokens, i)
            ELSE IF tokens[i].flags = "" THEN NoFlags
            ELSE NumberOf(tokens, FirstNamed(tokens, i))]
    <2>1. ParseFields(tokens) = [i \in 1 .. n |-> parsed(i)]
          BY <1>2, Zenon DEF ParseFields
    <2> HIDE DEF parsed
    <2>2. \A i \in 1 .. n : ParseFields(tokens)[i] = parsed(i)
          BY <2>1, Zenon
    <2> QED
        BY <2>1, <2>2, Zenon
  <1>5. PICK parsed : parsed = ParseFields(tokens)
        OBVIOUS
  <1>6. Len(parsed) = n
        BY <1>3, <1>4, <1>5, FieldsLength, Zenon
  <1> QED
      BY <1>2, <1>5, <1>6, Zenon

LEMMA Exact == GeneratorIInv => LookupIsExact
  <1> SUFFICES ASSUME GeneratorIInv, state = "written", NEW enabled \in Builds, NEW d \in Declarations
               PROVE  LET schema == SchemaOf(enabled)
                          byId == LookupSchema(d.line.id, enabled)
                          byName == FindMethod(d.line.name, enabled)
                          same == {e \in schema : e.line.id = d.line.id}
                          methods == {e \in schema : e.line.name = d.line.name /\ e.method}
                      IN  /\ byId.found <=> same # {}
                          /\ byId.found => \E e \in same :
                                 /\ byId.entry.name = e.line.name
                                 /\ Len(byId.entry.fields) = Len(e.line.fields)
                          /\ byName.found <=> methods # {}
                          /\ byName.found => \E e \in methods : byName.entry.id = e.line.id
      BY Zenon DEF LookupIsExact
  <1>1. PICK l \in Declared : d.line = text[l].line
        BY DeclarationsAre, Zenon
  <1>2. PICK wanted, called : wanted = d.line.id /\ called = d.line.name
        OBVIOUS
  <1>3. PICK byId, byName :
              byId = LookupSchema(wanted, enabled) /\ byName = FindMethod(called, enabled)
        OBVIOUS
  <1>4. wanted = text[l].line.id /\ called = text[l].line.name
        BY <1>1, <1>2, Zenon
  <1>5. Answers(byId, WithId(Compiled(enabled), wanted))
        BY <1>3, <1>4, LookupSchemaIs, Zenon
  <1>6. Answers(byName, WithName(Compiled(enabled), called))
        BY <1>3, <1>4, FindMethodIs, Zenon
  <1>7. \A e \in SchemaOf(enabled) : \E k \in Declared :
            /\ Home(k) \in Compiled(enabled)
            /\ e.line = text[k].line /\ e.method = MethodAt(k)
    <2> SUFFICES ASSUME NEW e \in SchemaOf(enabled)
                 PROVE  \E k \in Declared :
                           /\ Home(k) \in Compiled(enabled)
                           /\ e.line = text[k].line /\ e.method = MethodAt(k)
        BY Zenon
    <2>1. e \in Declarations /\ (e.file = "core.tl" \/ HomeOf(e.file, e.line.name) \in enabled)
          BY Zenon DEF SchemaOf
    <2>2. PICK k \in Declared :
              e.file = text[k].file /\ e.line = text[k].line /\ e.method = MethodAt(k)
          BY <2>1, DeclarationsAre, Zenon
    <2>3. text[k].file = "core.tl" \/ Home(k) \in enabled
          BY <2>1, <2>2, Zenon DEF Home
    <2> QED
        BY <2>2, <2>3, CompiledAre, Zenon
  <1>8. ASSUME NEW k \in Declared, Home(k) \in Compiled(enabled)
        PROVE  \E e \in SchemaOf(enabled) : e.line = text[k].line /\ e.method = MethodAt(k)
    <2>1. PICK e \in Declarations :
              e.file = text[k].file /\ e.line = text[k].line /\ e.method = MethodAt(k)
          BY DeclarationsAre, Zenon
    <2>2. text[k].file = "core.tl" \/ Home(k) \in enabled
          BY <1>8, CompiledAre, Zenon
    <2>3. e.file = "core.tl" \/ HomeOf(e.file, e.line.name) \in enabled
          BY <2>1, <2>2, Zenon DEF Home
    <2>4. e \in SchemaOf(enabled)
          BY <2>1, <2>3, Zenon DEF SchemaOf
    <2> QED
        BY <2>1, <2>4, Zenon
  <1>9. byId.found <=> {e \in SchemaOf(enabled) : e.line.id = wanted} # {}
    <2>1. ASSUME NEW k \in WithId(Compiled(enabled), wanted)
          PROVE  {e \in SchemaOf(enabled) : e.line.id = wanted} # {}
          BY <1>8, Zenon DEF WithId
    <2>2. ASSUME NEW e \in SchemaOf(enabled), e.line.id = wanted
          PROVE  \E k \in WithId(Compiled(enabled), wanted) : TRUE
          BY <1>7, <2>2, Zenon DEF WithId
    <2>3. byId.found <=> \E k \in WithId(Compiled(enabled), wanted) : TRUE
          BY <1>5, Zenon DEF Answers
    <2> QED
        BY <2>1, <2>2, <2>3, Zenon
  <1>10. byId.found => \E e \in {s \in SchemaOf(enabled) : s.line.id = wanted} :
             /\ byId.entry.name = e.line.name
             /\ Len(byId.entry.fields) = Len(e.line.fields)
    <2> SUFFICES ASSUME byId.found
                 PROVE  \E e \in {s \in SchemaOf(enabled) : s.line.id = wanted} :
                            /\ byId.entry.name = e.line.name
                            /\ Len(byId.entry.fields) = Len(e.line.fields)
        BY Zenon
    <2>1. PICK k \in Declared : /\ Home(k) \in Compiled(enabled) /\ text[k].line.id = wanted
                                /\ Records(byId.entry, k)
          BY <1>5, Zenon DEF Answers, WithId
    <2>2. PICK e \in SchemaOf(enabled) : e.line = text[k].line
          BY <1>8, <2>1, Zenon
    <2>3. /\ byId.entry.name = e.line.name
          /\ byId.entry.fields = ParseFields(e.line.fields)
          BY <2>1, <2>2, Zenon DEF Records
    <2>4. e.line \in AllDeclarations
          BY <2>2, DeclaredLine, Zenon
    <2>5. Len(byId.entry.fields) = Len(e.line.fields)
          BY <2>3, <2>4, FieldsAreCounted, Zenon
    <2> QED
        BY <2>1, <2>2, <2>3, <2>5, Zenon
  <1>11. byName.found <=>
             {e \in SchemaOf(enabled) : e.line.name = called /\ e.method} # {}
    <2>1. ASSUME NEW k \in WithName(Compiled(enabled), called)
          PROVE  {e \in SchemaOf(enabled) : e.line.name = called /\ e.method} # {}
          BY <1>8, Zenon DEF WithName
    <2>2. ASSUME NEW e \in SchemaOf(enabled), e.line.name = called, e.method
          PROVE  \E k \in WithName(Compiled(enabled), called) : TRUE
          BY <1>7, <2>2, Zenon DEF WithName
    <2>3. byName.found <=> \E k \in WithName(Compiled(enabled), called) : TRUE
          BY <1>6, Zenon DEF Answers
    <2> QED
        BY <2>1, <2>2, <2>3, Zenon
  <1>12. byName.found =>
             \E e \in {s \in SchemaOf(enabled) : s.line.name = called /\ s.method} :
                byName.entry.id = e.line.id
    <2> SUFFICES ASSUME byName.found
                 PROVE  \E e \in {s \in SchemaOf(enabled) : s.line.name = called /\ s.method} :
                            byName.entry.id = e.line.id
        BY Zenon
    <2>1. PICK k \in Declared : /\ Home(k) \in Compiled(enabled) /\ text[k].line.name = called
                                /\ MethodAt(k) /\ Records(byName.entry, k)
          BY <1>6, Zenon DEF Answers, WithName
    <2>2. PICK e \in SchemaOf(enabled) : e.line = text[k].line /\ e.method = MethodAt(k)
          BY <1>8, <2>1, Zenon
    <2>3. byName.entry.id = e.line.id
          BY <2>1, <2>2, Zenon DEF Records
    <2> QED
        BY <2>1, <2>2, <2>3, Zenon
  <1> QED
      BY <1>2, <1>3, <1>9, <1>10, <1>11, <1>12, Zenon

LEMMA WordsAreFound == GeneratorIInv => FlagsWordFound
  <1> SUFFICES ASSUME GeneratorIInv, state = "written", NEW d \in Declarations
               PROVE  LET table == output.of[HomeOf(d.file, d.line.name)].schema
                          fields == table[CHOOSE i \in DOMAIN table :
                                             table[i].name = d.line.name].fields
                          words == {k \in DOMAIN fields : fields[k].ty = "#"}
                      IN  \A j \in DOMAIN fields : d.line.fields[j].flags # "" =>
                             {k \in words : fields[k].flagsField = fields[j].flagsField}
                               = {k \in words : fields[k].name = d.line.fields[j].flags}
      BY Zenon DEF FlagsWordFound
  <1> DEFINE table == output.of[HomeOf(d.file, d.line.name)].schema
             place == CHOOSE i \in DOMAIN table : table[i].name = d.line.name
             fields == table[place].fields
  <1> SUFFICES \A j \in DOMAIN fields :
                  d.line.fields[j].flags # "" => WordFound(fields, d.line.fields, j)
      BY Zenon DEF WordFound
  <1>1. PICK k \in Declared : d.file = text[k].file /\ d.line = text[k].line
        BY DeclarationsAre, Zenon
  <1>2. PICK h, line : h = Home(k) /\ line = d.line
        OBVIOUS
  <1>3. HomeOf(d.file, d.line.name) = h
        BY <1>1, <1>2, Zenon DEF Home
  <1>4. /\ h \in DOMAIN namespaces
        /\ \E i \in DOMAIN ConstructorsOf(h) : Records(ConstructorsOf(h)[i], k)
        /\ WellFormed(line.fields) /\ NamespaceIsRead(h)
        BY <1>1, <1>2, Zenon DEF GeneratorIInv, TablesRead, DeclarationIsRead
  <1>5. PICK cs : cs = ConstructorsOf(h)
        OBVIOUS
  <1>6. table = ById(cs)
        BY <1>2, <1>3, <1>4, <1>5, TablesAre, Zenon
  <1>7. /\ \E S : cs \in Seq(S)
        /\ \A i \in DOMAIN cs : \E m \in Declared : Home(m) = h /\ Records(cs[i], m)
        /\ \A i, j \in DOMAIN cs : cs[i].name = cs[j].name => i = j
        BY <1>4, <1>5, Zenon DEF NamespaceIsRead
  <1>8. PICK size \in Nat : DOMAIN cs = 1 .. size
    <2>1. PICK S : cs \in Seq(S)
          BY <1>7, Zenon
    <2> QED
        BY <2>1, SequencesDomain, Zenon
  <1>9. \A i \in 1 .. size : cs[i].id \in Nat
        BY <1>7, <1>8, DeclaredLine, Zenon DEF Records
  <1>10. DOMAIN table = 1 .. size /\ SameEntries(table, cs)
         BY <1>6, <1>8, <1>9, ByIdIs, Zenon
  <1>11. PICK own \in DOMAIN cs : Records(cs[own], k)
         BY <1>4, <1>5, Zenon
  <1>12. cs[own].name = line.name /\ cs[own].fields = ParseFields(line.fields)
         BY <1>1, <1>2, <1>11, Zenon DEF Records
  <1> HIDE DEF table
  <1>13. place = CHOOSE i \in DOMAIN table : table[i].name = line.name
         BY <1>2, Zenon
  <1> HIDE DEF place
  <1>14. place \in DOMAIN table /\ table[place].name = line.name
    <2>1. \E i \in DOMAIN table : table[i] = cs[own]
          BY <1>10, <1>11, Zenon DEF SameEntries
    <2>2. \E i \in DOMAIN table : table[i].name = line.name
          BY <1>12, <2>1, Zenon
    <2> QED
        BY <1>13, <2>2, Zenon
  <1>15. table[place] = cs[own]
    <2>1. PICK i \in DOMAIN cs : table[place] = cs[i]
          BY <1>10, <1>14, Zenon DEF SameEntries
    <2>2. cs[i].name = cs[own].name
          BY <1>12, <1>14, <2>1, Zenon
    <2> QED
        BY <1>7, <2>1, <2>2, Zenon
  <1>16. PICK tokens : tokens = line.fields
         OBVIOUS
  <1> HIDE DEF fields
  <1>17. fields = ParseFields(tokens)
         BY <1>12, <1>15, <1>16, Zenon DEF fields
  <1>18. line \in AllDeclarations
         BY <1>1, <1>2, DeclaredLine, Zenon
  <1>19. FlagsWordsOf(tokens)
         BY <1>4, <1>16, <1>18, FlagsWords, Zenon
  <1>20. DOMAIN fields = DOMAIN tokens
    <2>1. PICK S : tokens \in Seq(S)
          BY <1>16, <1>18, FieldsAssumption, Zenon
    <2>2. PICK n \in Nat : DOMAIN tokens = 1 .. n
          BY <2>1, SequencesDomain, Zenon
    <2>3. DOMAIN ParseFields(tokens) = 1 .. n
          BY <2>2, FieldsAre, Zenon
    <2> QED
        BY <1>17, <2>2, <2>3, Zenon
  <1>21. \A j \in DOMAIN fields : tokens[j].flags # "" => WordFound(fields, tokens, j)
         BY <1>17, <1>19, <1>20, Zenon DEF FlagsWordsOf
  <1> QED
      BY <1>2, <1>16, <1>21, Zenon

(* For every set of schema files: whatever they declare, in every build    *)
(* lookup_schema and find_method find exactly what the schema of that      *)
(* build declares.                                                         *)
THEOREM SearchesAreExact == GeneratorSpec => []LookupIsExact
  <1> QED
      BY GeneratorInvariance, Exact, PTL

(* For every set of schema files: the flags word a conditional field of a  *)
(* table refers to is the one its declaration names.                       *)
THEOREM FlagsWordsAreFound == GeneratorSpec => []FlagsWordFound
  <1> QED
      BY GeneratorInvariance, WordsAreFound, PTL

-----------------------------------------------------------------------------
(* The configuration.                                                      *)
Closed(fs) == \A f \in fs : Implies(f) \subseteq fs

-----------------------------------------------------------------------------
(* What the manifest says, feature by feature.                             *)
LEMMA ImpliedFeatures ==
    /\ Implies(Feature("auth-key")) = {Feature("crypto-rustcrypto")}
    /\ Implies(Feature("session-document")) = {Feature("crypto-rustcrypto")}
    /\ Implies(Feature("session-file")) = {Feature("session-document"), Feature("std")}
    /\ Implies(Feature("auth")) = {Common} \cup {Api(n) : n \in AuthNamespaces}
    /\ Implies(Feature("api")) = {Common} \cup {Api(n) : n \in Namespaces}
    /\ \A n : n # "" => Implies(Api(n)) = {Common}
    /\ Implies(Feature("crypto-rustcrypto")) = {} /\ Implies(Feature("std")) = {}
  <1> QED
      BY DEF Implies, Feature, Api, Common

(* Whatever is implied by something implied implies at most itself.        *)
LEMMA ShortChains ==
    ASSUME NEW f, NEW g \in Implies(f), NEW h \in Implies(g)
    PROVE  Implies(h) \subseteq {h}
  <1>1. Implies(Common) = {Common} /\ Common = Api("common")
        BY ImpliedFeatures DEF Common
  <1>2. AuthNamespaces \subseteq Namespaces /\ \A n \in Namespaces : n # ""
        BY NamespacesAssumption DEF AuthNamespaces
  <1>3. CASE f \in {Feature("auth-key"), Feature("session-document")}
        BY <1>3, ImpliedFeatures
  <1>4. CASE f = Feature("session-file")
        BY <1>4, ImpliedFeatures
  <1>5. CASE f \in {Feature("auth"), Feature("api")}
    <2>1. g = Common \/ \E n \in Namespaces : g = Api(n)
      <3>1. Implies(f) \subseteq {Common} \cup {Api(n) : n \in Namespaces}
        <4>1. CASE f = Feature("auth")
              BY <1>2, <4>1, ImpliedFeatures
        <4>2. CASE f = Feature("api")
              BY <4>2, ImpliedFeatures
        <4> QED
            BY <1>5, <4>1, <4>2
      <3> QED
          BY <3>1
    <2>2. h = Common
          BY <1>1, <1>2, <2>1, ImpliedFeatures
    <2> QED
        BY <1>1, <2>2
  <1>6. CASE /\ f \notin {Feature("auth-key"), Feature("session-document"),
                         Feature("session-file"), Feature("auth"), Feature("api")}
    <2>1. g = Common
          BY <1>6 DEF Implies
    <2> QED
        BY <1>1, <2>1
  <1> QED
      BY <1>3, <1>4, <1>5, <1>6

LEMMA ClosureIsClosed ==
    ASSUME NEW fs
    PROVE  fs \subseteq Closure(fs) /\ Closed(Closure(fs))
  <1> DEFINE one == WithImplied(fs)
             two == WithImplied(one)
             three == WithImplied(two)
  <1>1. fs \subseteq one /\ one \subseteq two /\ two \subseteq three
        BY DEF WithImplied
  <1>2. /\ \A f \in one : Implies(f) \subseteq two
        /\ \A f \in two : Implies(f) \subseteq three
        /\ \A g \in two : g \in one \/ \E f \in one : g \in Implies(f)
        /\ \A h \in three : h \in two \/ \E g \in two : h \in Implies(g)
        BY DEF WithImplied
  <1> HIDE DEF one, two, three
  <1>3. ASSUME NEW h \in three PROVE Implies(h) \subseteq three
    <2>1. CASE h \in two
          BY <2>1, <1>2
    <2>2. CASE h \notin two
      <3>1. PICK g \in two : h \in Implies(g)
            BY <1>2, <2>2
      <3>2. g \notin one
            BY <3>1, <1>2, <2>2
      <3>3. PICK f \in one : g \in Implies(f)
            BY <3>2, <1>2
      <3>4. Implies(h) \subseteq {h}
            BY <3>1, <3>3, ShortChains
      <3> QED
          BY <3>4
    <2> QED
        BY <2>1, <2>2
  <1>4. three = Closure(fs)
        BY DEF one, two, three, Closure
  <1> QED
      BY <1>1, <1>3, <1>4 DEF Closed
(* One step of implication brings a namespace only by `api` and `auth`,    *)
(* and never one of these two.                                             *)
LEMMA OneStep ==
    ASSUME NEW fs, NEW n \in Namespaces
    PROVE  /\ Api(n) \in WithImplied(fs) <=>
                 \/ Api(n) \in fs
                 \/ Feature("api") \in fs
                 \/ n \in AuthNamespaces /\ Feature("auth") \in fs
           /\ Feature("api") \in WithImplied(fs) <=> Feature("api") \in fs
           /\ Feature("auth") \in WithImplied(fs) <=> Feature("auth") \in fs
  <1>1. /\ n # "common" /\ n # ""
        /\ \A m : Api(m) = Api(n) <=> m = n
        /\ \A m : Api(n) # Feature(m)
        /\ Common # Api(n) /\ Common # Feature("api") /\ Common # Feature("auth")
        BY NamespacesAssumption DEF Api, Feature, Common
  <1>2. \A m \in Namespaces : Api(m) # Feature("api") /\ Api(m) # Feature("auth")
        BY NamespacesAssumption DEF Api, Feature
  <1>3. ASSUME NEW f
        PROVE  /\ Api(n) \in Implies(f) <=>
                     f = Feature("api") \/ (f = Feature("auth") /\ n \in AuthNamespaces)
               /\ Feature("api") \notin Implies(f) /\ Feature("auth") \notin Implies(f)
    <2>1. CASE f = Feature("api")
          BY <2>1, <1>1, <1>2, ImpliedFeatures
    <2>2. CASE f = Feature("auth")
      <3>1. Implies(f) = {Common} \cup {Api(m) : m \in AuthNamespaces}
            BY <2>2, ImpliedFeatures
      <3>2. AuthNamespaces \subseteq Namespaces
            BY NamespacesAssumption DEF AuthNamespaces
      <3>3. f # Feature("api")
            BY <2>2 DEF Feature
      <3>4. Api(n) \in Implies(f) <=> n \in AuthNamespaces
        <4>1. Api(n) \in Implies(f) <=> \E m \in AuthNamespaces : Api(n) = Api(m)
              BY <3>1, <1>1
        <4>2. \A m : Api(n) = Api(m) => n = m
              BY DEF Api
        <4> QED
            BY <4>1, <4>2
      <3>5. Feature("api") \notin Implies(f) /\ Feature("auth") \notin Implies(f)
            BY <3>1, <3>2, <1>1, <1>2
      <3> QED
          BY <2>2, <3>3, <3>4, <3>5
    <2>3. CASE f # Feature("api") /\ f # Feature("auth")
      <3>1. Implies(f) \in {{Feature("crypto-rustcrypto")},
                            {Feature("session-document"), Feature("std")}, {Common}, {}}
            BY <2>3 DEF Implies
      <3>2. \A x \in {"crypto-rustcrypto", "session-document", "std"} :
               Feature(x) # Feature("api") /\ Feature(x) # Feature("auth")
            BY DEF Feature
      <3> QED
          BY <2>3, <3>1, <3>2, <1>1
    <2> QED
        BY <2>1, <2>2, <2>3
  <1>4. \A g : g \in WithImplied(fs) <=> g \in fs \/ \E f \in fs : g \in Implies(f)
        BY DEF WithImplied
  <1> QED
      BY <1>3, <1>4

LEMMA WhatBringsANamespace ==
    ASSUME NEW fs, NEW n \in Namespaces
    PROVE  /\ Api(n) \in Closure(fs) <=>
                 \/ Api(n) \in fs
                 \/ Feature("api") \in fs
                 \/ n \in AuthNamespaces /\ Feature("auth") \in fs
           /\ Feature("auth") \in Closure(fs) <=> Feature("auth") \in fs
  <1> QED
      BY OneStep DEF Closure

-----------------------------------------------------------------------------
(* The inductive invariant.                                                *)
LineSet == [key : Switches \cup {"api_", "package", "?"},
            namespace : Namespaces \cup {""}, on : BOOLEAN]

ProfileTypes ==
    /\ lines \in Seq(LineSet)
    /\ switches \subseteq Switches
    /\ override \in [DOMAIN override -> BOOLEAN] /\ DOMAIN override \subseteq Namespaces

LastLinesCount ==
    /\ "api" \in switches <=> SaysOn("api", "")
    /\ \A n \in Namespaces :
          /\ n \in DOMAIN override <=> ~Silent("api_", n)
          /\ n \in DOMAIN override => (override[n] <=> SaysOn("api_", n))

SelectedFromFile == phase \in {"selected", "built"} => selected = SelectedFeatures

LinkedFromSelected == Built => linked = Closure(selected \cup Required(package))

ProfileIInv == ProfileTypes /\ LastLinesCount /\ SelectedFromFile /\ LinkedFromSelected

(* A new line decides about its own key, and about no other.               *)
SaysIn(ls, i, key, n) == ls[i].key = key /\ ls[i].namespace = n
SilentIn(ls, key, n) == \A i \in DOMAIN ls : ~SaysIn(ls, i, key, n)
SaysOnIn(ls, key, n) ==
    \E i \in DOMAIN ls :
        /\ SaysIn(ls, i, key, n) /\ ls[i].on
        /\ \A j \in DOMAIN ls : j > i => ~SaysIn(ls, j, key, n)

LEMMA NewLine ==
    ASSUME NEW S, NEW ls \in Seq(S), NEW new \in S, NEW key, NEW n
    PROVE  IF new.key = key /\ new.namespace = n
           THEN /\ ~SilentIn(Append(ls, new), key, n)
                /\ SaysOnIn(Append(ls, new), key, n) <=> new.on
           ELSE /\ SilentIn(Append(ls, new), key, n) <=> SilentIn(ls, key, n)
                /\ SaysOnIn(Append(ls, new), key, n) <=> SaysOnIn(ls, key, n)
  <1> DEFINE k == Len(ls)
             more == Append(ls, new)
  <1>1. /\ k \in Nat /\ DOMAIN ls = 1..k /\ DOMAIN more = 1..(k + 1)
        /\ \A i \in 1..k : more[i] = ls[i]
        /\ more[k + 1] = new
        BY AppendProperties, LenProperties
  <1> HIDE DEF k, more
  <1>2. /\ \A i \in 1..k : SaysIn(more, i, key, n) <=> SaysIn(ls, i, key, n)
        /\ SaysIn(more, k + 1, key, n) <=> new.key = key /\ new.namespace = n
        BY <1>1 DEF SaysIn
  <1>3. /\ k + 1 \in 1..(k + 1)
        /\ \A i \in 1..(k + 1) : ~(i > k + 1) /\ (i \in 1..k \/ i = (k + 1))
        /\ \A i \in 1..k : i \in 1..(k + 1) /\ k + 1 > i
        BY <1>1
  <1>4. ASSUME new.key = key, new.namespace = n
        PROVE  ~SilentIn(more, key, n) /\ (SaysOnIn(more, key, n) <=> new.on)
    <2>1. SaysIn(more, k + 1, key, n)
          BY <1>2, <1>4
    <2>2. ~SilentIn(more, key, n)
          BY <1>1, <1>3, <2>1 DEF SilentIn
    <2>3. ASSUME new.on PROVE SaysOnIn(more, key, n)
          BY <1>1, <1>3, <2>1, <2>3 DEF SaysOnIn
    <2>4. ASSUME SaysOnIn(more, key, n) PROVE new.on
      <3>1. PICK i \in 1..(k + 1) :
               /\ more[i].on
               /\ \A j \in 1..(k + 1) : j > i => ~SaysIn(more, j, key, n)
            BY <1>1, <2>4 DEF SaysOnIn
      <3>2. i = k + 1
            BY <1>3, <2>1, <3>1
      <3> QED
          BY <1>1, <3>1, <3>2
    <2> QED
        BY <2>2, <2>3, <2>4
  <1>5. ASSUME ~(new.key = key /\ new.namespace = n)
        PROVE  /\ SilentIn(more, key, n) <=> SilentIn(ls, key, n)
               /\ SaysOnIn(more, key, n) <=> SaysOnIn(ls, key, n)
    <2>1. ~SaysIn(more, k + 1, key, n)
          BY <1>2, <1>5
    <2>2. SilentIn(more, key, n) <=> SilentIn(ls, key, n)
          BY <1>1, <1>2, <1>3, <2>1 DEF SilentIn
    <2>3. ASSUME SaysOnIn(ls, key, n) PROVE SaysOnIn(more, key, n)
      <3>1. PICK i \in 1..k :
               /\ SaysIn(ls, i, key, n) /\ ls[i].on
               /\ \A j \in 1..k : j > i => ~SaysIn(ls, j, key, n)
            BY <1>1, <2>3 DEF SaysOnIn
      <3>2. \A j \in 1..(k + 1) : j > i => ~SaysIn(more, j, key, n)
            BY <1>2, <1>3, <2>1, <3>1
      <3> QED
          BY <1>1, <1>2, <1>3, <3>1, <3>2 DEF SaysOnIn
    <2>4. ASSUME SaysOnIn(more, key, n) PROVE SaysOnIn(ls, key, n)
      <3>1. PICK i \in 1..(k + 1) :
               /\ SaysIn(more, i, key, n) /\ more[i].on
               /\ \A j \in 1..(k + 1) : j > i => ~SaysIn(more, j, key, n)
            BY <1>1, <2>4 DEF SaysOnIn
      <3>2. i \in 1..k
            BY <1>3, <2>1, <3>1
      <3>3. \A j \in 1..k : j > i => ~SaysIn(ls, j, key, n)
            BY <1>2, <1>3, <3>1
      <3> QED
          BY <1>1, <1>2, <3>1, <3>2, <3>3 DEF SaysOnIn
    <2> QED
        BY <2>2, <2>3, <2>4
  <1> QED
      BY <1>4, <1>5 DEF more
LEMMA SameNotions ==
    ASSUME NEW key, NEW n
    PROVE  /\ Silent(key, n) <=> SilentIn(lines, key, n)
           /\ SaysOn(key, n) <=> SaysOnIn(lines, key, n)
  <1> QED
      BY DEF Silent, SaysOn, Says, SilentIn, SaysOnIn, SaysIn

LEMMA SameNotionsNext ==
    ASSUME NEW key, NEW n
    PROVE  /\ Silent(key, n)' <=> SilentIn(lines', key, n)
           /\ SaysOn(key, n)' <=> SaysOnIn(lines', key, n)
  <1> QED
      BY DEF Silent, SaysOn, Says, SilentIn, SaysOnIn, SaysIn

(* Reading a line changes what the file says of this line's key only.      *)
LEMMA Reads ==
    ASSUME lines \in Seq(LineSet), NEW k, NEW m, NEW v,
           [key |-> k, namespace |-> m, on |-> v] \in LineSet,
           Reading([key |-> k, namespace |-> m, on |-> v])
    PROVE  /\ lines' \in Seq(LineSet)
           /\ \A key, n :
                 IF k = key /\ m = n
                 THEN ~Silent(key, n)' /\ (SaysOn(key, n)' <=> v)
                 ELSE (Silent(key, n)' <=> Silent(key, n)) /\ (SaysOn(key, n)' <=> SaysOn(key, n))
  <1> DEFINE new == [key |-> k, namespace |-> m, on |-> v]
  <1>1. lines' = Append(lines, new)
        BY DEF Reading
  <1>2. new.key = k /\ new.namespace = m /\ new.on = v /\ new \in LineSet
        OBVIOUS
  <1> HIDE DEF new
  <1>3. lines' \in Seq(LineSet)
        BY <1>1, <1>2, AppendProperties
  <1>4. ASSUME NEW key, NEW n
        PROVE  IF k = key /\ m = n
               THEN ~Silent(key, n)' /\ (SaysOn(key, n)' <=> v)
               ELSE /\ Silent(key, n)' <=> Silent(key, n)
                    /\ SaysOn(key, n)' <=> SaysOn(key, n)
    <2>1. IF k = key /\ m = n
          THEN ~SilentIn(lines', key, n) /\ (SaysOnIn(lines', key, n) <=> v)
          ELSE /\ SilentIn(lines', key, n) <=> SilentIn(lines, key, n)
               /\ SaysOnIn(lines', key, n) <=> SaysOnIn(lines, key, n)
          BY <1>1, <1>2, NewLine
    <2> QED
        BY <2>1, SameNotions, SameNotionsNext
  <1> QED
      BY <1>3, <1>4

LEMMA InitIInv == Init => ProfileIInv
  <1> SUFFICES ASSUME Init PROVE ProfileIInv
      OBVIOUS
  <1>1. lines = <<>> /\ override = << >> /\ phase = "reading" /\ switches = OnByDefault
        BY DEF Init
  <1>2. DOMAIN lines = {} /\ DOMAIN override = {} /\ lines \in Seq(LineSet)
        BY <1>1
  <1>3. ProfileTypes
        BY <1>1, <1>2 DEF ProfileTypes, OnByDefault, Switches
  <1>4. LastLinesCount
        BY <1>1, <1>2 DEF LastLinesCount, SaysOn, Silent, OnByDefault
  <1> QED
      BY <1>1, <1>3, <1>4 DEF ProfileIInv, SelectedFromFile, LinkedFromSelected, Built
-----------------------------------------------------------------------------
(* Every step keeps it.                                                    *)
LEMMA ReadSwitchIInv ==
    ASSUME ProfileIInv, NEW key \in Switches, NEW value \in BOOLEAN, ReadSwitch(key, value)
    PROVE  ProfileIInv'
  <1>1. lines \in Seq(LineSet) /\ [key |-> key, namespace |-> "", on |-> value] \in LineSet
        BY DEF ProfileIInv, ProfileTypes, LineSet
  <1>2. Reading([key |-> key, namespace |-> "", on |-> value])
        BY DEF ReadSwitch
  <1>3. /\ lines' \in Seq(LineSet)
        /\ \A k, n :
              IF key = k /\ "" = n
              THEN ~Silent(k, n)' /\ (SaysOn(k, n)' <=> value)
              ELSE (Silent(k, n)' <=> Silent(k, n)) /\ (SaysOn(k, n)' <=> SaysOn(k, n))
        BY <1>1, <1>2, Reads
  <1>4. /\ phase = "reading" /\ phase' = phase /\ override' = override
        /\ switches' = IF value THEN switches \cup {key} ELSE switches \ {key}
        BY DEF ReadSwitch, Reading
  <1>5. ProfileTypes'
        BY <1>3, <1>4 DEF ProfileIInv, ProfileTypes
  <1>6. ("api" \in switches <=> SaysOn("api", ""))'
    <2>1. "api" \in switches <=> SaysOn("api", "")
          BY DEF ProfileIInv, LastLinesCount
    <2>2. CASE key = "api"
      <3>1. SaysOn("api", "")' <=> value
            BY <1>3, <2>2
      <3> QED
          BY <1>4, <2>2, <3>1
    <2>3. CASE key # "api"
      <3>1. SaysOn("api", "")' <=> SaysOn("api", "")
            BY <1>3, <2>3
      <3> QED
          BY <1>4, <2>1, <2>3, <3>1
    <2> QED
        BY <2>2, <2>3
  <1>7. ASSUME NEW n \in Namespaces
        PROVE  /\ Silent("api_", n)' <=> Silent("api_", n)
               /\ SaysOn("api_", n)' <=> SaysOn("api_", n)
    <2>1. key # "api_"
          BY DEF Switches
    <2> QED
        BY <1>3, <2>1
  <1>8. LastLinesCount'
        BY <1>4, <1>6, <1>7 DEF ProfileIInv, LastLinesCount
  <1> QED
      BY <1>4, <1>5, <1>8 DEF ProfileIInv, SelectedFromFile, LinkedFromSelected, Built

LEMMA ReadNamespaceIInv ==
    ASSUME ProfileIInv, NEW m \in Namespaces, NEW value \in BOOLEAN, ReadNamespace(m, value)
    PROVE  ProfileIInv'
  <1>1. lines \in Seq(LineSet) /\ [key |-> "api_", namespace |-> m, on |-> value] \in LineSet
        BY DEF ProfileIInv, ProfileTypes, LineSet
  <1>2. Reading([key |-> "api_", namespace |-> m, on |-> value])
        BY DEF ReadNamespace
  <1>3. /\ lines' \in Seq(LineSet)
        /\ \A k, n :
              IF "api_" = k /\ m = n
              THEN ~Silent(k, n)' /\ (SaysOn(k, n)' <=> value)
              ELSE (Silent(k, n)' <=> Silent(k, n)) /\ (SaysOn(k, n)' <=> SaysOn(k, n))
        BY <1>1, <1>2, Reads
  <1>4. /\ phase = "reading" /\ phase' = phase /\ switches' = switches
        /\ override' = [n \in DOMAIN override \cup {m} |->
                           IF n = m THEN value ELSE override[n]]
        BY DEF ReadNamespace, Reading
  <1>5. ProfileTypes'
        BY <1>3, <1>4 DEF ProfileIInv, ProfileTypes
  <1>6. ("api" \in switches <=> SaysOn("api", ""))'
    <2>1. SaysOn("api", "")' <=> SaysOn("api", "")
          BY <1>3
    <2> QED
        BY <1>4, <2>1 DEF ProfileIInv, LastLinesCount
  <1>7. ASSUME NEW n \in Namespaces
        PROVE  /\ n \in DOMAIN override' <=> ~Silent("api_", n)'
               /\ n \in DOMAIN override' => (override'[n] <=> SaysOn("api_", n)')
    <2>1. /\ n \in DOMAIN override <=> ~Silent("api_", n)
          /\ n \in DOMAIN override => (override[n] <=> SaysOn("api_", n))
          BY DEF ProfileIInv, LastLinesCount
    <2>2. CASE n = m
      <3>1. ~Silent("api_", n)' /\ (SaysOn("api_", n)' <=> value)
            BY <1>3, <2>2
      <3> QED
          BY <1>4, <2>2, <3>1
    <2>3. CASE n # m
      <3>1. /\ Silent("api_", n)' <=> Silent("api_", n)
            /\ SaysOn("api_", n)' <=> SaysOn("api_", n)
            BY <1>3, <2>3
      <3>2. /\ n \in DOMAIN override' <=> n \in DOMAIN override
            /\ n \in DOMAIN override => override'[n] = override[n]
            BY <1>4, <2>3
      <3> QED
          BY <2>1, <3>1, <3>2
    <2> QED
        BY <2>2, <2>3
  <1>8. LastLinesCount'
        BY <1>6, <1>7 DEF LastLinesCount
  <1> QED
      BY <1>4, <1>5, <1>8 DEF ProfileIInv, SelectedFromFile, LinkedFromSelected, Built

(* A line that decides about neither: a package, or one that is refused.   *)
LEMMA OtherLineIInv ==
    ASSUME ProfileIInv, NEW k \in {"package", "?"}, NEW v \in BOOLEAN,
           Reading([key |-> k, namespace |-> "", on |-> v]),
           UNCHANGED <<switches, override>>, phase' \in {"reading", "refused"}
    PROVE  ProfileIInv'
  <1>1. lines \in Seq(LineSet) /\ [key |-> k, namespace |-> "", on |-> v] \in LineSet
        BY DEF ProfileIInv, ProfileTypes, LineSet
  <1>2. /\ lines' \in Seq(LineSet)
        /\ \A key, n :
              IF k = key /\ "" = n
              THEN ~Silent(key, n)' /\ (SaysOn(key, n)' <=> v)
              ELSE (Silent(key, n)' <=> Silent(key, n)) /\ (SaysOn(key, n)' <=> SaysOn(key, n))
        BY <1>1, Reads
  <1>3. ProfileTypes'
        BY <1>2 DEF ProfileIInv, ProfileTypes
  <1>4. \A key \in {"api", "api_"} : \A n :
           (Silent(key, n)' <=> Silent(key, n)) /\ (SaysOn(key, n)' <=> SaysOn(key, n))
        BY <1>2
  <1>5. LastLinesCount'
    <2>1. ("api" \in switches <=> SaysOn("api", ""))'
          BY <1>4 DEF ProfileIInv, LastLinesCount
    <2>2. \A n \in Namespaces :
             /\ Silent("api_", n)' <=> Silent("api_", n)
             /\ SaysOn("api_", n)' <=> SaysOn("api_", n)
          BY <1>4
    <2> QED
        BY <2>1, <2>2 DEF ProfileIInv, LastLinesCount
  <1> QED
      BY <1>3, <1>5 DEF ProfileIInv, SelectedFromFile, LinkedFromSelected, Built

(* A step that reads no line leaves what the lines say.                    *)
LEMMA SameLinesIInv ==
    ASSUME ProfileIInv, UNCHANGED <<lines, switches, override>>
    PROVE  ProfileTypes' /\ LastLinesCount' /\ SelectedFeatures' = SelectedFeatures
  <1>1. ProfileTypes'
        BY DEF ProfileIInv, ProfileTypes
  <1>2. LastLinesCount'
    <2>1. ASSUME NEW key, NEW n
          PROVE  (Silent(key, n)' <=> Silent(key, n)) /\ (SaysOn(key, n)' <=> SaysOn(key, n))
          BY DEF Silent, SaysOn, Says
    <2> QED
        BY <2>1 DEF ProfileIInv, LastLinesCount
  <1>3. SelectedFeatures' = SelectedFeatures
        BY DEF SelectedFeatures, SelectedApi
  <1> QED
      BY <1>1, <1>2, <1>3

LEMMA NextIInv == ProfileIInv /\ [Next]_vars => ProfileIInv'
  <1> SUFFICES ASSUME ProfileIInv, [Next]_vars PROVE ProfileIInv'
      OBVIOUS
  <1>1. ASSUME NEW key \in Switches, NEW value \in BOOLEAN, ReadSwitch(key, value)
        PROVE  ProfileIInv'
        BY <1>1, ReadSwitchIInv
  <1>2. ASSUME NEW n \in Namespaces, NEW value \in BOOLEAN, ReadNamespace(n, value)
        PROVE  ProfileIInv'
        BY <1>2, ReadNamespaceIInv
  <1>3. ASSUME NEW p \in Packages, ReadPackage(p) PROVE ProfileIInv'
    <2>1. /\ Reading([key |-> "package", namespace |-> "", on |-> TRUE])
          /\ UNCHANGED <<switches, override>> /\ phase' \in {"reading", "refused"}
          BY <1>3 DEF ReadPackage, Reading
    <2> QED
        BY <2>1, OtherLineIInv
  <1>4. CASE Refuse
    <2>1. /\ Reading([key |-> "?", namespace |-> "", on |-> FALSE])
          /\ UNCHANGED <<switches, override>> /\ phase' \in {"reading", "refused"}
          BY <1>4 DEF Refuse
    <2> QED
        BY <2>1, OtherLineIInv
  <1>5. CASE Select
    <2>1. UNCHANGED <<lines, switches, override>> /\ phase' = "selected"
          BY <1>5 DEF Select
    <2>2. selected' = SelectedFeatures
          BY <1>5 DEF Select
    <2>3. SelectedFromFile' /\ LinkedFromSelected'
          BY <2>1, <2>2, SameLinesIInv DEF SelectedFromFile, LinkedFromSelected, Built
    <2> QED
        BY <2>1, <2>3, SameLinesIInv DEF ProfileIInv
  <1>6. CASE RunCargo
    <2>1. /\ UNCHANGED <<lines, switches, override, selected, package>>
          /\ phase = "selected" /\ phase' = "built"
          /\ linked' = IF UsesCore(package) THEN Closure(selected \cup Required(package)) ELSE {}
          BY <1>6 DEF RunCargo
    <2>2. SelectedFromFile'
          BY <2>1, SameLinesIInv DEF ProfileIInv, SelectedFromFile
    <2>3. LinkedFromSelected'
          BY <2>1 DEF LinkedFromSelected, Built
    <2> QED
        BY <2>1, <2>2, <2>3, SameLinesIInv DEF ProfileIInv
  <1>7. CASE CargoFails
    <2>1. UNCHANGED <<lines, switches, override>> /\ phase' = "failed"
          BY <1>7 DEF CargoFails
    <2>2. SelectedFromFile' /\ LinkedFromSelected'
          BY <2>1 DEF SelectedFromFile, LinkedFromSelected, Built
    <2> QED
        BY <2>1, <2>2, SameLinesIInv DEF ProfileIInv
  <1>8. CASE UNCHANGED vars
    <2>1. UNCHANGED <<lines, switches, override, selected, package, phase, linked>>
          BY <1>8 DEF vars
    <2>2. SelectedFromFile'
          BY <2>1, SameLinesIInv DEF ProfileIInv, SelectedFromFile
    <2>3. LinkedFromSelected'
          BY <2>1 DEF ProfileIInv, LinkedFromSelected, Built
    <2> QED
        BY <2>1, <2>2, <2>3, SameLinesIInv DEF ProfileIInv
  <1> QED
      BY <1>1, <1>2, <1>3, <1>4, <1>5, <1>6, <1>7, <1>8 DEF Next
LEMMA ProfileInvariance == Spec => []ProfileIInv
  <1> QED
      BY InitIInv, NextIInv, PTL DEF Spec

-----------------------------------------------------------------------------
(* The parts that a set of features compiles, one by one.                  *)
LEMMA CompiledParts ==
    ASSUME NEW fs
    PROVE  /\ Part("std") \in CompiledWith(fs) <=> Feature("std") \in fs
           /\ Part("service") \in CompiledWith(fs) <=> Feature("service") \in fs
           /\ Part("auth_key") \in CompiledWith(fs) <=> Feature("auth-key") \in fs
           /\ Part("crypto") \in CompiledWith(fs) <=> Feature("crypto-rustcrypto") \in fs
           /\ Part("session") \in CompiledWith(fs) <=> Feature("session-document") \in fs
           /\ Part("session::file") \in CompiledWith(fs) <=>
                 Feature("session-document") \in fs /\ Feature("session-file") \in fs
           /\ Part("transport::abridged") \in CompiledWith(fs) <=>
                 Feature("transport-abridged") \in fs
           /\ Part("transport::intermediate") \in CompiledWith(fs) <=>
                 Feature("transport-intermediate") \in fs
  <1> QED
      BY DEF CompiledWith, Part, Generated, Feature, Api, Common
Modules == {"std", "service", "auth_key", "crypto", "session", "session::file",
            "transport::abridged", "transport::intermediate"}

LEMMA CompiledApi ==
    ASSUME NEW fs
    PROVE  /\ Generated("core") \in CompiledWith(fs)
           /\ \A n \in Namespaces \cup {"common"} : Api(n) \in fs => Generated(n) \in CompiledWith(fs)
           /\ Part("api") \in CompiledWith(fs) <=> Feature("api") \in fs \/ Common \in fs
           /\ Part("api::auth") \in CompiledWith(fs) <=>
                 Feature("auth") \in fs /\ (Feature("api") \in fs \/ Common \in fs)
           /\ \A p \in CompiledWith(fs) :
                 \/ \E m \in Modules : p = Part(m)
                 \/ \E n \in Namespaces \cup {"common", "core"} : p = Generated(n)
                 \/ p \in {Part("api"), Part("api::auth")}
                 \/ \E n \in {"messages", "updates", "users"} : p = <<"api", n>> /\ Api(n) \in fs
  <1>1. Generated("core") \in CompiledWith(fs)
        BY DEF CompiledWith
  <1>2. ASSUME NEW n \in Namespaces \cup {"common"}, Api(n) \in fs
        PROVE  Generated(n) \in CompiledWith(fs)
        BY <1>2 DEF CompiledWith
  <1>3. Part("api") \in CompiledWith(fs) <=> Feature("api") \in fs \/ Common \in fs
        BY DEF CompiledWith, Part, Generated
  <1>4. Part("api::auth") \in CompiledWith(fs) <=>
           Feature("auth") \in fs /\ (Feature("api") \in fs \/ Common \in fs)
        BY DEF CompiledWith, Part, Generated
  <1>5. ASSUME NEW p \in CompiledWith(fs)
        PROVE  \/ \E m \in Modules : p = Part(m)
               \/ \E n \in Namespaces \cup {"common", "core"} : p = Generated(n)
               \/ p \in {Part("api"), Part("api::auth")}
               \/ \E n \in {"messages", "updates", "users"} : p = <<"api", n>> /\ Api(n) \in fs
        BY <1>5 DEF CompiledWith, Modules
  <1> QED
      BY <1>1, <1>2, <1>3, <1>4, <1>5

(* In a closed set of features nothing that is compiled misses a part.     *)
LEMMA ClosedRefers ==
    ASSUME NEW fs, Closed(fs), NEW part \in CompiledWith(fs)
    PROVE  Refers(part) \subseteq CompiledWith(fs)
  <1>1. /\ Feature("auth-key") \in fs => Feature("crypto-rustcrypto") \in fs
        /\ Feature("session-document") \in fs => Feature("crypto-rustcrypto") \in fs
        /\ Feature("session-file") \in fs => Feature("std") \in fs
        BY ImpliedFeatures DEF Closed
  <1>2. Feature("api") \in fs => Common \in fs
        BY ImpliedFeatures DEF Closed
  <1>3. Feature("auth") \in fs => \A n \in AuthNamespaces : Api(n) \in fs
    <2>1. Feature("auth") \in fs => {Api(n) : n \in AuthNamespaces} \subseteq fs
          BY ImpliedFeatures DEF Closed
    <2> QED
        BY <2>1
  <1>4. \A n \in {"messages", "updates", "users"} : Api(n) \in fs => Common \in fs
        BY ImpliedFeatures DEF Closed
  <1>5. {"auth", "account"} \subseteq AuthNamespaces
        BY DEF AuthNamespaces
  <1>6. {"auth", "account", "messages", "updates", "users"} \subseteq Namespaces
        BY NamespacesAssumption
  <1>7. Common \in fs => Generated("common") \in CompiledWith(fs)
        BY CompiledApi DEF Common
  <1>8. CASE \E m \in Modules : part = Part(m)
    <2>1. PICK m \in Modules : part = Part(m)
          BY <1>8
    <2>2. CASE m = "auth_key"
      <3>1. Refers(part) = {Part("crypto"), Generated("core")}
            BY <2>1, <2>2 DEF Refers, Part, Generated
      <3>2. Part("crypto") \in CompiledWith(fs)
            BY <1>1, <2>1, <2>2, CompiledParts
      <3> QED
          BY <3>1, <3>2, CompiledApi
    <2>3. CASE m = "session"
      <3>1. Refers(part) = {Part("crypto")}
            BY <2>1, <2>3 DEF Refers, Part, Generated
      <3> QED
          BY <1>1, <2>1, <2>3, <3>1, CompiledParts
    <2>4. CASE m = "session::file"
      <3>1. Refers(part) = {Part("session"), Part("std")}
            BY <2>1, <2>4 DEF Refers, Part, Generated
      <3> QED
          BY <1>1, <2>1, <2>4, <3>1, CompiledParts
    <2>5. CASE m = "service"
      <3>1. Refers(part) = {Generated("core")}
            BY <2>1, <2>5 DEF Refers, Part, Generated
      <3> QED
          BY <3>1, CompiledApi
    <2>6. CASE m \in {"std", "crypto", "transport::abridged", "transport::intermediate"}
      <3>1. Refers(part) = {}
            BY <2>1, <2>6 DEF Refers, Part, Generated
      <3> QED
          BY <3>1
    <2> QED
        BY <2>2, <2>3, <2>4, <2>5, <2>6 DEF Modules
  <1>9. CASE \E n \in Namespaces \cup {"common", "core"} : part = Generated(n)
    <2>1. Refers(part) = {}
          BY <1>9 DEF Refers, Part, Generated
    <2> QED
        BY <2>1
  <1>10. CASE part = Part("api")
    <2>1. Refers(part) = {Generated("common"), Generated("core")}
          BY <1>10 DEF Refers, Part
    <2>2. Common \in fs
          BY <1>2, <1>10, CompiledApi
    <2> QED
        BY <1>7, <2>1, <2>2, CompiledApi
  <1>11. CASE part = Part("api::auth")
    <2>1. Refers(part) = {Part("api")} \cup {Generated(n) : n \in {"auth", "account", "common"}}
          BY <1>11 DEF Refers, Part
    <2>2. Feature("auth") \in fs /\ Part("api") \in CompiledWith(fs) /\ Common \in fs
          BY <1>2, <1>11, CompiledApi
    <2>3. Api("auth") \in fs /\ Api("account") \in fs
          BY <1>3, <1>5, <2>2
    <2>4. Generated("auth") \in CompiledWith(fs) /\ Generated("account") \in CompiledWith(fs)
          BY <1>6, <2>3, CompiledApi
    <2> QED
        BY <1>7, <2>1, <2>2, <2>4
  <1>12. CASE \E n \in {"messages", "updates", "users"} : part = <<"api", n>> /\ Api(n) \in fs
    <2>1. PICK n \in {"messages", "updates", "users"} : part = <<"api", n>> /\ Api(n) \in fs
          BY <1>12
    <2>2. Refers(part) = {Part("api"), Generated(n), Generated("common")}
          BY <2>1 DEF Refers, Part
    <2>3. Common \in fs
          BY <1>4, <2>1
    <2>4. Generated(n) \in CompiledWith(fs)
          BY <1>6, <2>1, CompiledApi
    <2>5. Part("api") \in CompiledWith(fs)
          BY <2>3, CompiledApi
    <2> QED
        BY <1>7, <2>2, <2>3, <2>4, <2>5
  <1> QED
      BY <1>8, <1>9, <1>10, <1>11, <1>12, CompiledApi

LEMMA LinkedIsClosed == ProfileIInv /\ Built => Closed(linked)
  <1> QED
      BY ClosureIsClosed DEF ProfileIInv, LinkedFromSelected

-----------------------------------------------------------------------------
(* No configuration file makes a build whose code refers to a part that is *)
(* left out.                                                               *)
THEOREM NothingIsMissing == Spec => []ReferencesAreCompiled
  <1>1. ProfileIInv => ReferencesAreCompiled
        BY LinkedIsClosed, ClosedRefers DEF ReferencesAreCompiled
  <1> QED
      BY <1>1, ProfileInvariance, PTL

(* The bits of CompiledFeatures say what is compiled, and the API bit      *)
(* promises the whole schema.                                              *)
THEOREM BitsAreTrue == Spec => []BitsReportWhatIsCompiled
  <1> SUFFICES ASSUME ProfileIInv, Built
               PROVE  BitsReportWhatIsCompiled
      BY ProfileInvariance, PTL DEF BitsReportWhatIsCompiled
  <1>1. Closed(linked)
        BY LinkedIsClosed
  <1>2. /\ Feature("session-file") \in linked => Feature("session-document") \in linked
        /\ Feature("auth") \in linked => Common \in linked
        /\ Feature("api") \in linked => {Api(n) : n \in Namespaces} \subseteq linked
        BY <1>1, ImpliedFeatures DEF Closed
  <1>3. ASSUME NEW x \in {"transport-abridged", "transport-intermediate", "service",
                          "crypto-rustcrypto", "api", "auth", "session-document",
                          "session-file"}
        PROVE  Feature(x) \in CompiledFeatures <=> Feature(x) \in linked
        BY DEF CompiledFeatures
  <1>4. Feature("api") \in linked => \A n \in Namespaces : Generated(n) \in CompiledWith(linked)
        BY <1>2, CompiledApi
  <1>5. /\ Feature("transport-abridged") \in CompiledFeatures
              <=> Part("transport::abridged") \in CompiledWith(linked)
        /\ Feature("transport-intermediate") \in CompiledFeatures
              <=> Part("transport::intermediate") \in CompiledWith(linked)
        /\ Feature("service") \in CompiledFeatures <=> Part("service") \in CompiledWith(linked)
        /\ Feature("crypto-rustcrypto") \in CompiledFeatures
              <=> Part("crypto") \in CompiledWith(linked)
        /\ Feature("session-document") \in CompiledFeatures
              <=> Part("session") \in CompiledWith(linked)
        BY <1>3, CompiledParts
  <1>6. /\ Feature("session-file") \in CompiledFeatures
              <=> Part("session::file") \in CompiledWith(linked)
        /\ Feature("auth") \in CompiledFeatures <=> Part("api::auth") \in CompiledWith(linked)
        BY <1>2, <1>3, CompiledParts, CompiledApi
  <1> QED
      BY <1>3, <1>4, <1>5, <1>6 DEF BitsReportWhatIsCompiled

(* The namespaces in the binary are those the file's last lines ask for,   *)
(* and those that the login helpers bring.                                 *)
THEOREM LastLinesDecide == Spec => []NamespacesAsAsked
  <1> SUFFICES ASSUME ProfileIInv, Built
               PROVE  NamespacesAsAsked
      BY ProfileInvariance, PTL DEF NamespacesAsAsked
  <1>1. linked = Closure(selected \cup Required(package)) /\ selected = SelectedFeatures
        BY DEF ProfileIInv, LinkedFromSelected, SelectedFromFile, Built
  <1>2. ASSUME NEW n \in Namespaces
        PROVE  Api(n) \in linked <=> Asked(n) \/ (n \in AuthNamespaces /\ Feature("auth") \in linked)
    <2>1. ASSUME NEW key \in switches \ {"api"}
          PROVE  FeatureOf(key) # Feature("api") /\ FeatureOf(key) # Api(n)
      <3>1. n # ""
            BY NamespacesAssumption
      <3>2. key # "api" /\ key \in Switches
            BY <2>1 DEF ProfileIInv, ProfileTypes
      <3> QED
          BY <3>1, <3>2 DEF FeatureOf, Feature, Api, Switches
    <2>2. Feature("api") \notin Required(package) /\ Api(n) \notin Required(package)
      <3>1. n # ""
            BY NamespacesAssumption
      <3> QED
          BY <3>1 DEF Required, Feature, Api
    <2>3. Api(n) \in SelectedApi \/ Feature("api") \in SelectedApi <=> Asked(n)
      <3>1. /\ "api" \in switches <=> SaysOn("api", "")
            /\ n \in DOMAIN override <=> ~Silent("api_", n)
            /\ n \in DOMAIN override => (override[n] <=> SaysOn("api_", n))
            BY DEF ProfileIInv, LastLinesCount
      <3>2. SaysOn("api_", n) => ~Silent("api_", n)
            BY DEF SaysOn, Silent
      <3>3. CASE "api" \in switches /\ DOMAIN override = {}
        <4>1. SelectedApi = {Feature("api")}
              BY <3>3 DEF SelectedApi
        <4> QED
            BY <3>1, <3>3, <4>1 DEF Asked
      <3>4. CASE ~("api" \in switches /\ DOMAIN override = {})
        <4>1. SelectedApi = {Api(m) : m \in {m \in Namespaces :
                 IF m \in DOMAIN override THEN override[m] ELSE "api" \in switches}}
              BY <3>4 DEF SelectedApi
        <4>2. Feature("api") \notin SelectedApi
          <5>1. \A m \in Namespaces : m # ""
                BY NamespacesAssumption
          <5> QED
              BY <4>1, <5>1 DEF Feature, Api
        <4>3. Api(n) \in SelectedApi <=>
                 IF n \in DOMAIN override THEN override[n] ELSE "api" \in switches
          <5>1. \A m : Api(m) = Api(n) => m = n
                BY DEF Api
          <5> QED
              BY <4>1, <5>1
        <4> QED
            BY <3>1, <3>2, <4>2, <4>3 DEF Asked
      <3> QED
          BY <3>3, <3>4
    <2>4. /\ Api(n) \in selected \cup Required(package) <=> Api(n) \in SelectedApi
          /\ Feature("api") \in selected \cup Required(package) <=> Feature("api") \in SelectedApi
          BY <1>1, <2>1, <2>2 DEF SelectedFeatures
    <2> QED
        BY <1>1, <2>3, <2>4, WhatBringsANamespace
  <1> QED
      BY <1>2 DEF NamespacesAsAsked
===============================================================================
