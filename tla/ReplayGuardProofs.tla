-------------------------- MODULE ReplayGuardProofs --------------------------
(***************************************************************************)
(* First the replay window, for every capacity and every set of            *)
(* identifiers.  The inductive invariant is the conjunction of the three   *)
(* invariants the runs check: sortedness makes ids[1] the minimum that     *)
(* insert compares with, and WindowIsNewest carries the history that an    *)
(* identifier no longer tracked is below that minimum, so it is refused.   *)
(*                                                                         *)
(* Then the receive path, for every pair of limits and any number of       *)
(* messages, copies and restarts.  The window's invariant holds in every   *)
(* run of the host, since a restart begins with a new window.  What is     *)
(* added ties the window of this run to the history: all that this run     *)
(* delivered was accepted by it, and whatever has expired stays expired as *)
(* the clock only advances.                                                *)
(***************************************************************************)
EXTENDS ReplayGuard, FiniteSetTheorems, SequenceTheorems, TLAPS

IInv == TypeOK /\ StrictlySorted /\ WindowIsNewest

-----------------------------------------------------------------------------
(* What a sort leaves behind when the entries were distinct: the same set  *)
(* of entries, strictly ascending, in an array of the same type whose      *)
(* other slots did not move.                                               *)
LEMMA SortResult ==
    ASSUME NEW V, V \subseteq Nat,
           NEW a \in [Slots -> V], NEW n \in Slots, NEW b \in Sortings(a, n),
           \A i, j \in 1 .. n : a[i] = a[j] => i = j
    PROVE  /\ b \in [Slots -> V]
           /\ {b[i] : i \in 1 .. n} = {a[i] : i \in 1 .. n}
           /\ \A i, j \in 1 .. n : i < j => b[i] < b[j]
<1> USE CapacityAssumption DEF Slots
<1>1. PICK p \in Bijection(1 .. n, 1 .. n) :
          /\ \A i, j \in 1 .. n : i < j => a[p[i]] <= a[p[j]]
          /\ b = Rearranged(a, n, p)
  BY DEF Sortings
<1>2. /\ p \in [1 .. n -> 1 .. n]
      /\ \A i, j \in 1 .. n : p[i] = p[j] => i = j
      /\ \A t \in 1 .. n : \E i \in 1 .. n : p[i] = t
  BY <1>1 DEF Bijection, Injection, Surjection, IsInjective
<1>3. 1 .. n \subseteq Slots
  OBVIOUS
<1>4. b = [i \in Slots |-> IF i <= n THEN a[p[i]] ELSE a[i]]
  BY <1>1 DEF Rearranged
<1>5. \A i \in 1 .. n : b[i] = a[p[i]]
  BY <1>3, <1>4
<1>6. b \in [Slots -> V]
  <2>1. \A i \in Slots : i <= n => p[i] \in Slots
    <3> TAKE i \in Slots
    <3> HAVE i <= n
    <3>1. i \in 1 .. n
      OBVIOUS
    <3>2. p[i] \in 1 .. n
      BY <1>2, <3>1
    <3> QED
      BY <1>3, <3>2
  <2>2. \A i \in Slots : (IF i <= n THEN a[p[i]] ELSE a[i]) \in V
    BY <2>1
  <2> QED
    BY <1>4, <2>2
<1>7. {b[i] : i \in 1 .. n} = {a[i] : i \in 1 .. n}
  <2>1. \A i \in 1 .. n : p[i] \in 1 .. n /\ b[i] = a[p[i]]
    BY <1>2, <1>5
  <2>2. ASSUME NEW t \in 1 .. n PROVE \E i \in 1 .. n : b[i] = a[t]
    <3>1. PICK i \in 1 .. n : p[i] = t
      BY <1>2
    <3> QED
      BY <2>1, <3>1
  <2>3. {b[i] : i \in 1 .. n} \subseteq {a[i] : i \in 1 .. n}
    BY <2>1
  <2>4. {a[i] : i \in 1 .. n} \subseteq {b[i] : i \in 1 .. n}
    <3> SUFFICES ASSUME NEW t \in 1 .. n
                 PROVE  a[t] \in {b[i] : i \in 1 .. n}
      OBVIOUS
    <3>1. PICK i \in 1 .. n : b[i] = a[t]
      BY <2>2
    <3> QED
      BY <3>1
  <2> QED
    BY <2>3, <2>4
<1>8. ASSUME NEW i \in 1 .. n, NEW j \in 1 .. n, i < j
      PROVE  b[i] < b[j]
  <2>1. a[p[i]] <= a[p[j]]
    BY <1>1, <1>8
  <2>2. p[i] # p[j]
    BY <1>2, <1>8
  <2>3. a[p[i]] # a[p[j]]
    BY <1>2, <2>2
  <2>4. a[p[i]] \in Nat /\ a[p[j]] \in Nat
    BY <1>2, <1>3
  <2> QED
    BY <1>5, <2>1, <2>3, <2>4
<1> QED
  BY <1>6, <1>7, <1>8

-----------------------------------------------------------------------------
(* The empty window satisfies the invariant.                               *)
LEMMA InitIInv == Init => IInv
<1> SUFFICES ASSUME Init PROVE IInv
  OBVIOUS
<1> USE CapacityAssumption DEF Init
<1>1. TypeOK
  BY DEF TypeOK, Slots
<1>2. Tracked = {}
  BY DEF Tracked
<1>3. StrictlySorted
  BY DEF StrictlySorted
<1>4. WindowIsNewest
  BY <1>2 DEF WindowIsNewest
<1> QED
  BY <1>1, <1>3, <1>4 DEF IInv

(* Appending to a window with room keeps the invariant.                    *)
LEMMA AppendIInv ==
    ASSUME IInv, NEW id \in MessageIds, InsertAppend(id)
    PROVE  IInv'
<1> USE CapacityAssumption, MessageIdsAssumption
<1> DEFINE V == MessageIds \cup {0}
           n == used + 1
           a == [ids EXCEPT ![n] = id]
<1>1. /\ ids \in [Slots -> V] /\ used \in 0 .. Capacity /\ used < Capacity
      /\ accepted \subseteq MessageIds
      /\ id \notin Tracked
      /\ used' = n /\ ids' \in Sortings(a, n)
      /\ accepted' = accepted \cup {id}
      /\ verdict' = [id |-> id, result |-> "ok"]
  BY DEF IInv, TypeOK, InsertAppend, Answer
<1>2. V \subseteq Nat /\ n \in Slots /\ a \in [Slots -> V]
  BY <1>1 DEF Slots
<1>3. \A i \in 1 .. used : a[i] = ids[i] /\ a[i] # id /\ i \in Slots
  BY <1>1 DEF Slots, Tracked
<1>4. a[n] = id
  BY <1>1, <1>2
<1>5. \A i, j \in 1 .. used : ids[i] = ids[j] => i = j
  <2> SUFFICES ASSUME NEW i \in 1 .. used, NEW j \in 1 .. used, i # j
               PROVE  ids[i] # ids[j]
    OBVIOUS
  <2>1. ids[i] \in Nat /\ ids[j] \in Nat
    BY <1>1, <1>2, <1>3
  <2>2. i < j \/ j < i
    BY <1>1
  <2> QED
    BY <2>1, <2>2 DEF IInv, StrictlySorted
<1>6. \A i, j \in 1 .. n : a[i] = a[j] => i = j
  <2>1. \A i \in 1 .. n : i \in 1 .. used \/ i = n
    BY <1>1
  <2> QED
    BY <2>1, <1>3, <1>4, <1>5
<1> HIDE DEF a, V
<1>7. /\ ids' \in [Slots -> V]
      /\ {ids'[i] : i \in 1 .. n} = {a[i] : i \in 1 .. n}
      /\ \A i, j \in 1 .. n : i < j => ids'[i] < ids'[j]
  BY <1>1, <1>2, <1>6, SortResult
<1>8. Tracked' = Tracked \cup {id}
  <2>1. 1 .. n = (1 .. used) \cup {n}
    BY <1>1
  <2>2. {a[i] : i \in 1 .. n} = Tracked \cup {id}
    BY <2>1, <1>3, <1>4 DEF Tracked
  <2>3. Tracked' = {ids'[i] : i \in 1 .. n}
    BY <1>1 DEF Tracked
  <2> QED
    BY <2>2, <2>3, <1>7
<1>9. TypeOK'
  BY <1>1, <1>2, <1>7 DEF TypeOK, V, Slots
<1>10. StrictlySorted'
  BY <1>1, <1>7 DEF StrictlySorted
<1>11. WindowIsNewest'
  <2>1. accepted = Tracked
    BY <1>1 DEF IInv, WindowIsNewest
  <2>2. accepted' = Tracked'
    BY <2>1, <1>1, <1>8
  <2> QED
    BY <2>2 DEF WindowIsNewest
<1> QED
  BY <1>9, <1>10, <1>11 DEF IInv

(* Evicting the oldest entry of a full window keeps the invariant: the     *)
(* evicted identifier is below the entries that stay and below id.         *)
LEMMA EvictIInv ==
    ASSUME IInv, NEW id \in MessageIds, InsertEvict(id)
    PROVE  IInv'
<1> USE CapacityAssumption, MessageIdsAssumption
<1> DEFINE V == MessageIds \cup {0}
           n == Capacity
           a == [ids EXCEPT ![1] = id]
           oldest == ids[1]
<1>1. /\ ids \in [Slots -> V] /\ used = n
      /\ accepted \subseteq MessageIds
      /\ id \notin Tracked /\ ~(id < oldest)
      /\ used' = n /\ ids' \in Sortings(a, n)
      /\ accepted' = accepted \cup {id}
      /\ verdict' = [id |-> id, result |-> "ok"]
  BY DEF IInv, TypeOK, InsertEvict, Answer
<1>2. /\ V \subseteq Nat /\ n \in Slots /\ a \in [Slots -> V]
      /\ 1 \in Slots /\ 1 \in 1 .. n /\ oldest \in Nat /\ id \in Nat
  <2>1. V \subseteq Nat /\ n \in Slots /\ 1 \in Slots /\ 1 \in 1 .. n /\ id \in Nat
    BY DEF Slots
  <2>2. id \in V
    OBVIOUS
  <2>3. a \in [Slots -> V]
    BY <1>1, <2>2
  <2>4. oldest \in V
    BY <1>1, <2>1
  <2> QED
    BY <2>1, <2>3, <2>4
<1>3. oldest \in Tracked /\ oldest < id
  BY <1>1, <1>2 DEF Tracked
<1>4. \A i \in 2 .. n : /\ i \in 1 .. n /\ i \in Slots /\ a[i] = ids[i]
                        /\ a[i] # id /\ oldest < ids[i] /\ ids[i] \in Nat
  <2> TAKE i \in 2 .. n
  <2>1. i \in 1 .. n /\ i \in Slots /\ 1 < i
    BY <1>2 DEF Slots
  <2>2. a[i] = ids[i]
    BY <1>1, <2>1
  <2>3. ids[i] \in Tracked
    BY <1>1, <2>1 DEF Tracked
  <2>4. ids[i] # id
    BY <1>1, <2>3
  <2>5. oldest < ids[i]
    BY <1>1, <1>2, <2>1 DEF IInv, StrictlySorted
  <2>6. ids[i] \in Nat
    BY <1>1, <1>2, <2>1
  <2> QED
    BY <2>1, <2>2, <2>4, <2>5, <2>6
<1>5. a[1] = id
  BY <1>1, <1>2
<1>6. \A i, j \in 1 .. n : a[i] = a[j] => i = j
  <2> SUFFICES ASSUME NEW i \in 1 .. n, NEW j \in 1 .. n, i < j
               PROVE  a[i] # a[j]
    BY <1>2
  <2>1. j \in 2 .. n
    OBVIOUS
  <2>2. CASE i = 1
    BY <2>1, <2>2, <1>4, <1>5
  <2>3. CASE i # 1
    <3>1. i \in 2 .. n
      BY <2>3
    <3>2. ids[i] < ids[j]
      BY <1>1, <3>1 DEF IInv, StrictlySorted
    <3> QED
      BY <2>1, <3>1, <3>2, <1>4
  <2> QED
    BY <2>2, <2>3
<1>7. 1 .. n = {1} \cup (2 .. n)
  BY <1>2
<1> HIDE DEF a, V, n, oldest
<1>8. /\ ids' \in [Slots -> V]
      /\ {ids'[i] : i \in 1 .. n} = {a[i] : i \in 1 .. n}
      /\ \A i, j \in 1 .. n : i < j => ids'[i] < ids'[j]
  BY <1>1, <1>2, <1>6, SortResult
<1>9. Tracked' = (Tracked \ {oldest}) \cup {id}
  <2>1. {a[i] : i \in 1 .. n} = {ids[i] : i \in 2 .. n} \cup {id}
    BY <1>4, <1>5, <1>7
  <2>2. Tracked = {oldest} \cup {ids[i] : i \in 2 .. n}
    BY <1>1, <1>7 DEF Tracked, oldest
  <2>3. oldest \notin {ids[i] : i \in 2 .. n}
    BY <1>2, <1>4
  <2>4. Tracked' = {ids'[i] : i \in 1 .. n}
    BY <1>1 DEF Tracked
  <2> QED
    BY <2>1, <2>2, <2>3, <2>4, <1>8
<1>10. \A t \in Tracked' : oldest < t
  <2>1. \A t \in Tracked \ {oldest} : oldest < t
    BY <1>1, <1>4, <1>7 DEF Tracked, oldest
  <2> QED
    BY <2>1, <1>3, <1>9
<1>11. TypeOK'
  BY <1>1, <1>2, <1>8 DEF TypeOK, V, n, Slots
<1>12. StrictlySorted'
  BY <1>1, <1>8 DEF StrictlySorted
<1>13. WindowIsNewest'
  <2>1. /\ Tracked \subseteq accepted
        /\ \A x \in accepted \ Tracked : x < oldest
    BY <1>3 DEF IInv, WindowIsNewest
  <2>2. Tracked' \subseteq accepted'
    BY <1>1, <1>9, <2>1
  <2>3. ~(used' < Capacity)
    BY <1>1 DEF n
  <2>4. ASSUME NEW x \in accepted' \ Tracked', NEW t \in Tracked'
        PROVE  x < t
    <3>1. x = oldest \/ x \in accepted \ Tracked
      BY <1>1, <1>9
    <3>2. x <= oldest /\ x \in Nat
      BY <3>1, <2>1, <1>1, <1>2, MessageIdsAssumption
    <3>3. t \in Nat
      BY <2>2, <1>1, <1>2, MessageIdsAssumption
    <3> QED
      BY <3>2, <3>3, <1>2, <1>10
  <2> QED
    BY <2>2, <2>3, <2>4 DEF WindowIsNewest
<1> QED
  BY <1>11, <1>12, <1>13 DEF IInv

(* A refusal touches nothing but the answer.                               *)
LEMMA RefuseIInv ==
    ASSUME IInv, NEW id \in MessageIds,
           InsertDuplicate(id) \/ InsertBelowWindow(id)
    PROVE  IInv'
<1>1. /\ UNCHANGED <<ids, used, accepted>>
      /\ \/ verdict' = [id |-> id, result |-> "duplicate"]
         \/ verdict' = [id |-> id, result |-> "too_old"]
  BY DEF InsertDuplicate, InsertBelowWindow, Answer
<1>2. TypeOK'
  BY <1>1 DEF IInv, TypeOK
<1>3. StrictlySorted' /\ WindowIsNewest'
  BY <1>1 DEF IInv, StrictlySorted, WindowIsNewest, Tracked
<1> QED
  BY <1>2, <1>3 DEF IInv

LEMMA NextIInv == IInv /\ [Next]_vars => IInv'
<1> SUFFICES ASSUME IInv, [Next]_vars PROVE IInv'
  OBVIOUS
<1>1. ASSUME NEW id \in MessageIds, Insert(id) PROVE IInv'
  BY <1>1, AppendIInv, EvictIInv, RefuseIInv DEF Insert
<1>2. CASE UNCHANGED vars
  BY <1>2 DEF vars, IInv, TypeOK, StrictlySorted, WindowIsNewest, Tracked
<1> QED
  BY <1>1, <1>2 DEF Next

THEOREM InvariantHolds == Spec => []IInv
<1> QED
  BY InitIInv, NextIInv, PTL DEF Spec

-----------------------------------------------------------------------------
(* The type invariant, for every capacity and every set of identifiers.    *)
THEOREM TypeCorrect == Spec => []TypeOK
<1>1. IInv => TypeOK
  BY DEF IInv
<1> QED
  BY InvariantHolds, <1>1, PTL

(* The live prefix is always strictly ascending, so `ids[0]` in the code   *)
(* is the oldest tracked identifier at every comparison.                   *)
THEOREM AlwaysSorted == Spec => []StrictlySorted
<1>1. IInv => StrictlySorted
  BY DEF IInv
<1> QED
  BY InvariantHolds, <1>1, PTL

(* Every accepted identifier is tracked, or below everything tracked.      *)
THEOREM AlwaysNewest == Spec => []WindowIsNewest
<1>1. IInv => WindowIsNewest
  BY DEF IInv
<1> QED
  BY InvariantHolds, <1>1, PTL

(* The slot insert compares with, once the window is full.                 *)
LEMMA FullOldest ==
    ASSUME IInv, used = Capacity, NEW id \in MessageIds
    PROVE  ids[1] \in Tracked /\ ids[1] \in Nat /\ id \in Nat
<1> DEFINE V == MessageIds \cup {0}
<1>1. ids \in [Slots -> V] /\ 1 \in Slots
  BY CapacityAssumption DEF IInv, TypeOK, Slots
<1>2. ids[1] \in Tracked
  BY <1>1 DEF Tracked, Slots
<1>3. V \subseteq Nat /\ id \in V
  BY MessageIdsAssumption
<1>4. ids[1] \in V
  BY <1>1
<1> QED
  BY <1>2, <1>3, <1>4

(* What the invariant says at the moment insert accepts: id is fresh.      *)
LEMMA AcceptsFresh ==
    ASSUME IInv, NEW id \in MessageIds, InsertAppend(id) \/ InsertEvict(id)
    PROVE  id \notin accepted
<1>1. CASE InsertAppend(id)
  BY <1>1 DEF IInv, WindowIsNewest, InsertAppend
<1>2. CASE InsertEvict(id)
  <2>1. ids[1] \in Tracked /\ ids[1] \in Nat /\ id \in Nat
    BY <1>2, FullOldest DEF InsertEvict
  <2>2. id \notin Tracked /\ ~(id < ids[1])
    BY <1>2 DEF InsertEvict
  <2> QED
    BY <2>1, <2>2 DEF IInv, WindowIsNewest
<1> QED
  BY <1>1, <1>2

(* No identifier is accepted twice, for every capacity and every number    *)
(* and order of calls.                                                     *)
THEOREM NeverReplayed == Spec => NoReplay
<1>1. IInv => \A id \in MessageIds :
                  InsertAppend(id) \/ InsertEvict(id) => id \notin accepted
  BY AcceptsFresh
<1> QED
  BY InvariantHolds, <1>1, PTL DEF Spec, NoReplay

-----------------------------------------------------------------------------
(* The live prefix holds `used` distinct identifiers.                      *)
LEMMA TrackedSize ==
    ASSUME IInv
    PROVE  IsFiniteSet(Tracked) /\ Cardinality(Tracked) = used
<1> DEFINE f == [i \in 1 .. used |-> ids[i]]
<1>1. ids \in [Slots -> MessageIds \cup {0}] /\ used \in 0 .. Capacity
  BY DEF IInv, TypeOK
<1>2. \A i, j \in 1 .. used : ids[i] = ids[j] => i = j
  <2> SUFFICES ASSUME NEW i \in 1 .. used, NEW j \in 1 .. used, i # j
               PROVE  ids[i] # ids[j]
    OBVIOUS
  <2>1. i \in Slots /\ j \in Slots
    BY <1>1, CapacityAssumption DEF Slots
  <2>2. ids[i] \in Nat /\ ids[j] \in Nat
    <3>1. MessageIds \cup {0} \subseteq Nat
      BY MessageIdsAssumption
    <3> QED
      BY <1>1, <2>1, <3>1
  <2>3. i < j \/ j < i
    BY <1>1
  <2> QED
    BY <2>2, <2>3 DEF IInv, StrictlySorted
<1>3. f \in [1 .. used -> Tracked]
  BY DEF Tracked
<1>4. \A i, j \in 1 .. used : f[i] = f[j] => i = j
  BY <1>2
<1>5. \A t \in Tracked : \E i \in 1 .. used : f[i] = t
  BY DEF Tracked
<1>6. f \in Bijection(1 .. used, Tracked)
  BY <1>3, <1>4, <1>5 DEF Bijection, Injection, Surjection, IsInjective
<1>7. ExistsBijection(1 .. used, Tracked)
  BY <1>6 DEF ExistsBijection
<1>8. IsFiniteSet(1 .. used) /\ Cardinality(1 .. used) = used
  BY <1>1, CapacityAssumption, FS_Interval
<1> QED
  BY <1>7, <1>8, FS_Bijection

(* The instance brings its own copy of Cardinality; it is the same one.    *)
LEMMA SameCardinality == \A S : Abstract!Cardinality(S) = Cardinality(S)
<1> QED
  BY DEF Abstract!Cardinality, Cardinality

(* insert and the set-based specification give the same answer.            *)
LEMMA InsertRefines ==
    ASSUME IInv, IsFiniteSet(accepted), NEW id \in MessageIds, Insert(id)
    PROVE  Abstract!Next
<1> DEFINE N == Abstract!Newer(id)
<1>0. /\ used \in 0 .. Capacity /\ id \in Nat
      /\ accepted \subseteq Nat /\ Tracked \subseteq accepted
      /\ \A a \in accepted \ Tracked : \A t \in Tracked : a < t
      /\ IsFiniteSet(Tracked) /\ Cardinality(Tracked) = used
  BY TrackedSize, MessageIdsAssumption DEF IInv, TypeOK, WindowIsNewest
<1>1. /\ N = {a \in accepted : a > id}
      /\ IsFiniteSet(N) /\ Cardinality(N) \in Nat
  BY FS_Subset, FS_CardinalityType DEF Abstract!Newer
<1> HIDE DEF N
<1>2. ASSUME NEW t \in Tracked, t <= id
      PROVE  Cardinality(N) < Capacity
  <2>0. N \subseteq Tracked \ {t}
    <3> SUFFICES ASSUME NEW a \in N PROVE a \in Tracked /\ a # t
      OBVIOUS
    <3>1. a \in accepted /\ a \in Nat /\ t \in Nat /\ t < a
      BY <1>0, <1>1, <1>2
    <3> QED
      BY <1>0, <3>1
  <2>1. /\ IsFiniteSet(Tracked \ {t})
        /\ Cardinality(Tracked \ {t}) = used - 1
    BY <1>0, FS_RemoveElement
  <2>2. Cardinality(N) <= used - 1
    BY <2>0, <2>1, FS_Subset
  <2> QED
    BY <1>0, <1>1, <2>2, CapacityAssumption
<1>3. CASE InsertAppend(id)
  <2>1. id \notin accepted
    BY <1>3, AcceptsFresh
  <2>2. accepted = Tracked /\ used < Capacity
    BY <1>3 DEF InsertAppend, IInv, WindowIsNewest
  <2>3. Cardinality(N) <= used
    BY <1>0, <1>1, <2>2, FS_Subset
  <2>4. Cardinality(N) < Capacity
    BY <1>0, <1>1, <2>2, <2>3, CapacityAssumption
  <2>5. Abstract!Accept(id)
    BY <1>3, <2>1, <2>4, SameCardinality DEF InsertAppend, Answer, Abstract!Accept, N
  <2> QED
    BY <2>5 DEF Abstract!Next
<1>4. CASE InsertEvict(id)
  <2>1. id \notin accepted
    BY <1>4, AcceptsFresh
  <2>2. ids[1] \in Tracked /\ ids[1] \in Nat /\ ~(id < ids[1])
    BY <1>4, FullOldest DEF InsertEvict
  <2>3. ids[1] <= id
    BY <1>0, <2>2
  <2>4. Cardinality(N) < Capacity
    BY <1>2, <2>2, <2>3
  <2>5. Abstract!Accept(id)
    BY <1>4, <2>1, <2>4, SameCardinality DEF InsertEvict, Answer, Abstract!Accept, N
  <2> QED
    BY <2>5 DEF Abstract!Next
<1>5. CASE InsertDuplicate(id)
  <2>1. id \in Tracked /\ id \in accepted
    BY <1>5, <1>0 DEF InsertDuplicate
  <2>2. id <= id
    BY <1>0
  <2>3. Cardinality(N) < Capacity
    BY <1>2, <2>1, <2>2
  <2>4. Abstract!RefuseDuplicate(id)
    BY <1>5, <2>1, <2>3, SameCardinality
    DEF InsertDuplicate, Answer, Abstract!RefuseDuplicate, N
  <2> QED
    BY <2>4 DEF Abstract!Next
<1>6. CASE InsertBelowWindow(id)
  <2>1. /\ used = Capacity /\ id < ids[1]
        /\ \A t \in Tracked : ids[1] <= t
    <3>1. used = Capacity /\ id < ids[1]
      BY <1>6 DEF InsertBelowWindow
    <3>2. ids[1] \in Nat
      BY <3>1, FullOldest
    <3>3. \A i \in 1 .. used : i = 1 \/ ids[1] < ids[i]
      BY <3>1, CapacityAssumption DEF IInv, StrictlySorted
    <3>4. ASSUME NEW t \in Tracked PROVE ids[1] <= t
      <4>1. PICK i \in 1 .. used : t = ids[i]
        BY DEF Tracked
      <4>2. t \in Nat
        BY <1>0
      <4> QED
        BY <3>2, <3>3, <4>1, <4>2
    <3> QED
      BY <3>1, <3>4
  <2>2. Tracked \subseteq N
    <3>1. ids[1] \in Nat
      BY <2>1, FullOldest
    <3> QED
      BY <1>0, <1>1, <2>1, <3>1
  <2>3. Cardinality(N) >= Capacity
    <3>1. Cardinality(Tracked) <= Cardinality(N)
      BY <1>1, <2>2, FS_Subset
    <3> QED
      BY <1>0, <1>1, <2>1, <3>1
  <2>4. Abstract!RefuseTooOld(id)
    BY <1>6, <2>3, SameCardinality
    DEF InsertBelowWindow, Answer, Abstract!RefuseTooOld, N
  <2> QED
    BY <2>4 DEF Abstract!Next
<1> QED
  BY <1>3, <1>4, <1>5, <1>6 DEF Insert

(* The array implements the set: for every capacity, the window answers    *)
(* every call as the set-based specification does, so a fresh identifier   *)
(* is refused only when Capacity newer ones were accepted.                 *)
THEOREM Refinement == Spec => ImplementsAtMostOnce
<1> DEFINE RInv == IInv /\ IsFiniteSet(accepted)
<1>1. Init => RInv
  BY InitIInv, FS_EmptySet DEF Init
<1>2. RInv /\ [Next]_vars => RInv'
  <2> SUFFICES ASSUME RInv, [Next]_vars PROVE RInv'
    OBVIOUS
  <2>1. IInv'
    BY NextIInv
  <2>2. IsFiniteSet(accepted')
    <3>1. \/ accepted' = accepted
          \/ \E id \in MessageIds : accepted' = accepted \cup {id}
      BY DEF Next, Insert, InsertDuplicate, InsertBelowWindow, InsertAppend,
             InsertEvict, vars
    <3> QED
      BY <3>1, FS_AddElement
  <2> QED
    BY <2>1, <2>2
<1>3. Init => Abstract!Init
  BY DEF Init, Abstract!Init
<1>4. RInv /\ [Next]_vars => [Abstract!Next]_(Abstract!vars)
  <2> SUFFICES ASSUME RInv, [Next]_vars
               PROVE  [Abstract!Next]_(Abstract!vars)
    OBVIOUS
  <2>1. CASE UNCHANGED vars
    BY <2>1 DEF vars, Abstract!vars
  <2>2. CASE Next
    BY <2>2, InsertRefines DEF Next
  <2> QED
    BY <2>1, <2>2
<1> QED
  BY <1>1, <1>2, <1>3, <1>4, PTL DEF Spec, ImplementsAtMostOnce, Abstract!Spec

-----------------------------------------------------------------------------
(* The server's numbers: odd, and within what its clock can reach.         *)
SentByServer == \A id \in sent : id \in MessageIds /\ id % 4 \in {1, 3}

DeliveredThisRun ==
    \A i \in DOMAIN delivered : delivered[i].epoch = epoch => delivered[i].id \in accepted

ExpiredForGood == \A id \in expired : TooLate(id, hostClock)

GuardInv ==
    /\ GuardTypeOK /\ IInv /\ IsFiniteSet(accepted)
    /\ SentByServer /\ DeliveredThisRun /\ ExpiredForGood /\ ReplayOnlyAcrossRestart

-----------------------------------------------------------------------------
(* Numbers.                                                                *)
LEMMA SecondsNatural ==
    ASSUME NEW id \in Nat
    PROVE  Seconds(id) \in Nat
  <1> QED
      BY LimitsAssumption DEF Seconds

(* What the server numbers at a second it can reach is an identifier, and  *)
(* its low bits are those of the tick.                                     *)
LEMMA NumberedBySecond ==
    ASSUME NEW clock \in 0 .. MaxTime, NEW ticks \in 0 .. TicksPerSecond - 1
    PROVE  /\ clock * TicksPerSecond + ticks \in MessageIds
           /\ (clock * TicksPerSecond + ticks) % 4 = ticks % 4
  <1> USE LimitsAssumption, BoundsAssumption
  <1>1. PICK k \in Nat : TicksPerSecond = 4 * k
    <2>1. TicksPerSecond = 4 * (TicksPerSecond \div 4) /\ TicksPerSecond \div 4 \in Nat
          OBVIOUS
    <2> QED
        BY <2>1
  <1>2. clock * TicksPerSecond = 4 * (clock * k) /\ clock * k \in Nat
        BY <1>1
  <1>3. (clock * TicksPerSecond + ticks) % 4 = ticks % 4
    <2>1. PICK m \in Nat : clock * TicksPerSecond = 4 * m
          BY <1>2
    <2> QED
        BY <2>1
  <1> QED
      BY <1>3, NumbersAssumption

-----------------------------------------------------------------------------
(* The window inside.  A restart makes a new one.                          *)
LEMMA NewWindowNext == Init' => IInv'
  <1> QED
      BY InitIInv, PTL

(* insert keeps the window's invariant; it says Ok only to an identifier   *)
(* it never accepted, and refuses one only for being known or for being    *)
(* older than everything in a full window.                                 *)
LEMMA InsertDoes ==
    ASSUME IInv, IsFiniteSet(accepted), NEW id \in MessageIds, Insert(id)
    PROVE  /\ IInv' /\ IsFiniteSet(accepted')
           /\ verdict'.result = "ok" => id \notin accepted /\ accepted' = accepted \cup {id}
           /\ verdict'.result # "ok" =>
                 /\ accepted' = accepted
                 /\ id \in accepted \/ Cardinality({a \in accepted : a > id}) >= Capacity
  <1> USE CapacityAssumption, MessageIdsAssumption
  <1>1. IInv'
    <2>1. Next
          BY DEF Next
    <2> QED
        BY <2>1, NextIInv
  <1>2. CASE InsertAppend(id) \/ InsertEvict(id)
    <2>1. id \notin accepted
          BY <1>2, AcceptsFresh
    <2>2. accepted' = accepted \cup {id} /\ verdict'.result = "ok"
          BY <1>2 DEF InsertAppend, InsertEvict, Answer
    <2>3. IsFiniteSet(accepted')
          BY <2>2, FS_AddElement
    <2> QED
        BY <1>1, <2>1, <2>2, <2>3
  <1>3. CASE InsertDuplicate(id)
    <2>1. id \in accepted /\ accepted' = accepted /\ verdict'.result # "ok"
          BY <1>3 DEF InsertDuplicate, Answer, IInv, WindowIsNewest
    <2> QED
        BY <1>1, <2>1
  <1>4. CASE InsertBelowWindow(id)
    <2> DEFINE Newer == {a \in accepted : a > id}
    <2>1. /\ accepted' = accepted /\ verdict'.result # "ok"
          /\ used = Capacity /\ id < ids[1]
          BY <1>4 DEF InsertBelowWindow, Answer
    <2>2. Tracked \subseteq accepted
          BY DEF IInv, WindowIsNewest
    <2>3. /\ TypeOK /\ StrictlySorted
          BY DEF IInv
    <2>4. \A t \in Tracked : t > id
      <3> SUFFICES ASSUME NEW i \in 1 .. used PROVE ids[i] > id
          BY DEF Tracked
      <3>1. ids \in [1 .. Capacity -> MessageIds \cup {0}]
            BY <2>3 DEF TypeOK, Slots
      <3>2. ids[i] \in Nat /\ ids[1] \in Nat /\ id \in Nat
        <4> DEFINE V == MessageIds \cup {0}
        <4>1. V \subseteq Nat /\ id \in V
              OBVIOUS
        <4>2. i \in 1 .. Capacity /\ 1 \in 1 .. Capacity
              BY <2>1
        <4> HIDE DEF V
        <4>3. ids[i] \in V /\ ids[1] \in V
              BY <3>1, <4>2 DEF V
        <4> QED
            BY <4>1, <4>3
      <3>3. i = 1 \/ ids[1] < ids[i]
            BY <2>1, <2>3 DEF StrictlySorted
      <3> QED
          BY <2>1, <3>2, <3>3
    <2>5. Tracked \subseteq Newer
          BY <2>2, <2>4
    <2>6. IsFiniteSet(Newer)
          BY FS_Subset
    <2>7. Cardinality(Tracked) = Capacity
          BY <2>1, TrackedSize
    <2>8. Cardinality(Newer) >= Cardinality(Tracked)
          BY <2>5, <2>6, FS_Subset
    <2> QED
        BY <1>1, <2>1, <2>7, <2>8
  <1> QED
      BY <1>2, <1>3, <1>4 DEF Insert

-----------------------------------------------------------------------------
(* The initial states satisfy the inductive invariant.                     *)
LEMMA InitInv == GuardInit => GuardInv
  <1> SUFFICES ASSUME GuardInit PROVE GuardInv
      OBVIOUS
  <1>1. IInv
        BY InitIInv DEF GuardInit
  <1>2. IsFiniteSet(accepted) /\ accepted = {}
        BY FS_EmptySet DEF GuardInit, Init
  <1>3. GuardTypeOK
        BY <1>1, BoundsAssumption, LimitsAssumption DEF GuardInit, GuardTypeOK, IInv
  <1> QED
      BY <1>1, <1>2, <1>3
         DEF GuardInit, GuardInv, SentByServer, DeliveredThisRun, ExpiredForGood,
             ReplayOnlyAcrossRestart

LEMMA WindowStands == IInv /\ UNCHANGED vars => IInv'
  <1> QED
      BY NextIInv

LEMMA TypesNext == IInv' => TypeOK'
  <1> QED
      BY DEF IInv

(* What is delivered keeps its type as messages are sent and hosts restart.*)
DeliveredType(S, e, now) == delivered \in Seq([id : S, epoch : 0 .. e, at : 0 .. now])

LEMMA DeliveredGrows ==
    ASSUME NEW S, NEW T, S \subseteq T, NEW e \in Nat, NEW f \in Nat, e <= f,
           NEW m \in Nat, NEW n \in Nat, m <= n, DeliveredType(S, e, m)
    PROVE  DeliveredType(T, f, n)
  <1> DEFINE A == [id : S, epoch : 0 .. e, at : 0 .. m]
             B == [id : T, epoch : 0 .. f, at : 0 .. n]
  <1>1. A \subseteq B
        OBVIOUS
  <1>2. delivered \in Seq(A)
        BY DEF DeliveredType
  <1> HIDE DEF A, B
  <1>3. delivered \in Seq(B)
        BY <1>1, <1>2
  <1> QED
      BY <1>3 DEF DeliveredType, B

LEMMA DeliveredEntries ==
    ASSUME GuardTypeOK
    PROVE  /\ DOMAIN delivered = 1 .. Len(delivered) /\ Len(delivered) \in Nat
           /\ \A i \in 1 .. Len(delivered) : delivered[i].epoch \in 0 .. epoch
  <1> DEFINE D == [id : sent, epoch : 0 .. epoch, at : 0 .. hostClock]
  <1>1. delivered \in Seq(D)
        BY DEF GuardTypeOK
  <1>2. ASSUME NEW i \in 1 .. Len(delivered) PROVE delivered[i] \in D
    <2> HIDE DEF D
    <2> QED
        BY <1>1, ElementOfSeq
  <1> QED
      BY <1>1, <1>2

-----------------------------------------------------------------------------
(* The clocks and the server.                                              *)
LEMMA ClocksInv == ASSUME GuardInv, ServerTick \/ HostTick PROVE GuardInv'
  <1> USE BoundsAssumption, LimitsAssumption DEF GuardInv
  <1>1. /\ UNCHANGED <<sent, vars, epoch, history>>
        /\ hostClock' \in 0 .. MaxTime /\ serverClock' \in 0 .. MaxTime
        /\ hostClock \in 0 .. MaxTime /\ hostClock' >= hostClock
        BY DEF ServerTick, HostTick, GuardTypeOK
  <1>2. IInv' /\ TypeOK'
        BY <1>1, WindowStands, TypesNext
  <1>3. DeliveredType(sent, epoch, hostClock')
    <2>1. DeliveredType(sent, epoch, hostClock) /\ epoch \in Nat
          BY DEF GuardTypeOK, DeliveredType
    <2>2. hostClock \in Nat /\ hostClock' \in Nat /\ hostClock <= hostClock'
          BY <1>1
    <2> QED
        BY <2>1, <2>2, DeliveredGrows
  <1>4. GuardTypeOK'
        BY <1>1, <1>2, <1>3 DEF GuardTypeOK, DeliveredType, history
  <1>5. ExpiredForGood'
    <2> SUFFICES ASSUME NEW id \in expired PROVE TooLate(id, hostClock')
        BY <1>1 DEF ExpiredForGood, history
    <2>1. id \in Nat
          BY MessageIdsAssumption DEF GuardTypeOK
    <2> QED
        BY <1>1, <2>1, SecondsNatural DEF ExpiredForGood, TooLate
  <1>6. (SentByServer /\ DeliveredThisRun /\ ReplayOnlyAcrossRestart /\ IsFiniteSet(accepted))'
        BY <1>1 DEF SentByServer, DeliveredThisRun, ReplayOnlyAcrossRestart, vars, history
  <1> QED
      BY <1>2, <1>4, <1>5, <1>6

LEMMA ServerSendInv == ASSUME GuardInv, ServerSend PROVE GuardInv'
  <1> USE DEF GuardInv
  <1>1. PICK ticks \in {t \in 0 .. TicksPerSecond - 1 : t % 4 \in {1, 3}} :
            sent' = sent \cup {serverClock * TicksPerSecond + ticks}
        BY DEF ServerSend
  <1> DEFINE id == serverClock * TicksPerSecond + ticks
  <1>2. id \in MessageIds /\ id % 4 \in {1, 3}
        BY <1>1, NumberedBySecond DEF GuardTypeOK
  <1>3. UNCHANGED <<serverClock, hostClock, vars, epoch, history>> /\ sent' = sent \cup {id}
        BY <1>1 DEF ServerSend
  <1> HIDE DEF id
  <1>4. IInv' /\ TypeOK'
        BY <1>3, WindowStands, TypesNext
  <1>5. DeliveredType(sent', epoch, hostClock)
    <2>1. /\ DeliveredType(sent, epoch, hostClock) /\ epoch \in Nat /\ hostClock \in Nat
          /\ sent \subseteq sent'
          BY <1>3, BoundsAssumption DEF GuardTypeOK, DeliveredType
    <2> QED
        BY <2>1, DeliveredGrows
  <1>6. GuardTypeOK'
        BY <1>2, <1>3, <1>4, <1>5 DEF GuardTypeOK, DeliveredType, history
  <1>7. SentByServer'
        BY <1>2, <1>3 DEF SentByServer
  <1>8. (DeliveredThisRun /\ ExpiredForGood /\ ReplayOnlyAcrossRestart /\ IsFiniteSet(accepted))'
        BY <1>3 DEF DeliveredThisRun, ExpiredForGood, ReplayOnlyAcrossRestart, vars, history
  <1> QED
      BY <1>4, <1>6, <1>7, <1>8

-----------------------------------------------------------------------------
(* A restart begins with a new window and forgets nothing of the history.  *)
LEMMA RestartInv == ASSUME GuardInv, Restart PROVE GuardInv'
  <1> USE DEF GuardInv, Restart
  <1>1. Init'
        BY DEF Init, Slots
  <1>2. IInv' /\ TypeOK'
        BY <1>1, NewWindowNext, TypesNext
  <1>3. DeliveredType(sent, epoch', hostClock)
    <2>1. /\ DeliveredType(sent, epoch, hostClock) /\ epoch \in Nat /\ hostClock \in Nat
          BY BoundsAssumption DEF GuardTypeOK, DeliveredType
    <2> QED
        BY <2>1, DeliveredGrows
  <1>4. GuardTypeOK'
        BY <1>2, <1>3, BoundsAssumption DEF GuardTypeOK, DeliveredType, history
  <1>5. DeliveredThisRun'
    <2>1. \A i \in DOMAIN delivered : delivered[i].epoch \in 0 .. epoch /\ epoch \in Nat
          BY BoundsAssumption, DeliveredEntries DEF GuardTypeOK
    <2> QED
        BY <2>1 DEF DeliveredThisRun, history
  <1>6. (SentByServer /\ ExpiredForGood /\ ReplayOnlyAcrossRestart)'
        BY DEF SentByServer, ExpiredForGood, ReplayOnlyAcrossRestart, history
  <1>7. IsFiniteSet(accepted)'
        BY FS_EmptySet
  <1> QED
      BY <1>2, <1>4, <1>5, <1>6, <1>7

LEMMA RefuseInvalidInv == ASSUME GuardInv, NEW id \in sent, RefuseInvalid(id) PROVE GuardInv'
  <1> USE DEF GuardInv, RefuseInvalid
  <1>1. IInv' /\ TypeOK'
        BY WindowStands, TypesNext
  <1>2. GuardTypeOK'
        BY <1>1 DEF GuardTypeOK
  <1>3. ExpiredForGood'
        BY DEF ExpiredForGood
  <1>4. (SentByServer /\ DeliveredThisRun /\ ReplayOnlyAcrossRestart /\ IsFiniteSet(accepted))'
        BY DEF SentByServer, DeliveredThisRun, ReplayOnlyAcrossRestart, vars
  <1> QED
      BY <1>1, <1>2, <1>3, <1>4

(* What is delivered now was not accepted by this run before, so an        *)
(* earlier delivery of it belongs to an earlier run.                       *)
LEMMA OfferInv == ASSUME GuardInv, NEW id \in sent, OfferToWindow(id) PROVE GuardInv'
  <1> USE DEF GuardInv
  <1> DEFINE new == [id |-> id, epoch |-> epoch, at |-> hostClock]
             n == Len(delivered)
  <1>0. /\ id \in MessageIds /\ Insert(id)
        /\ ~TooLate(id, hostClock)
        /\ UNCHANGED <<serverClock, hostClock, sent, epoch, expired>>
        /\ epoch \in Nat /\ hostClock \in Nat
        BY BoundsAssumption DEF OfferToWindow, Valid, GuardTypeOK
  <1>1. /\ IInv' /\ IsFiniteSet(accepted')
        /\ verdict'.result = "ok" => id \notin accepted /\ accepted' = accepted \cup {id}
        /\ verdict'.result # "ok" => accepted' = accepted
        BY <1>0, InsertDoes
  <1>2. TypeOK'
        BY <1>1, TypesNext
  <1>3. CASE verdict'.result = "ok"
    <2>1. delivered' = Append(delivered, new) /\ refused' = refused
          BY <1>3 DEF OfferToWindow
    <2> DEFINE D == [id : sent, epoch : 0 .. epoch, at : 0 .. hostClock]
    <2>2. delivered \in Seq(D) /\ new \in D /\ n \in Nat
          BY <1>0 DEF GuardTypeOK
    <2>a. /\ delivered' \in Seq(D) /\ Len(delivered') = n + 1
          /\ delivered'[n + 1] = new
          /\ \A i \in 1 .. n : delivered'[i] = delivered[i]
      <3> HIDE DEF D, new
      <3> QED
          BY <2>1, <2>2
    <2>3. GuardTypeOK'
          BY <1>0, <1>2, <2>1, <2>a DEF GuardTypeOK
    <2>4. DeliveredThisRun'
      <3> SUFFICES ASSUME NEW i \in 1 .. n + 1, delivered'[i].epoch = epoch
                   PROVE  delivered'[i].id \in accepted'
          BY <1>0, <2>a DEF DeliveredThisRun
      <3>1. CASE i = n + 1
            BY <3>1, <1>1, <1>3, <2>a
      <3>2. CASE i # n + 1
        <4>1. i \in 1 .. n
          <5> HIDE DEF GuardInv, D, new, n
          <5> QED
              BY <3>2, <2>2
        <4>2. delivered'[i] = delivered[i] /\ i \in DOMAIN delivered
          <5> HIDE DEF GuardInv, D, new
          <5> QED
              BY <4>1, <2>2, <2>a
        <4> QED
            BY <4>1, <4>2, <1>1, <1>3 DEF DeliveredThisRun
      <3> QED
          BY <3>1, <3>2
    <2>5. ReplayOnlyAcrossRestart'
      <3> SUFFICES ASSUME NEW i \in 1 .. n + 1, NEW j \in 1 .. n + 1, i < j,
                          delivered'[i].id = delivered'[j].id
                   PROVE  /\ delivered'[i].epoch < delivered'[j].epoch
                          /\ delivered'[j].at <= Seconds(delivered'[j].id) + PastLimit
          BY <2>a DEF ReplayOnlyAcrossRestart
      <3>1. CASE j = n + 1
        <4>1. i \in 1 .. n /\ delivered[i].id = id /\ delivered'[i] = delivered[i]
              BY <3>1, <2>a, <2>2
        <4>2. delivered[i].epoch # epoch /\ delivered[i].epoch \in 0 .. epoch
              BY <4>1, <1>1, <1>3, DeliveredEntries DEF DeliveredThisRun
        <4>3. hostClock <= Seconds(id) + PastLimit
          <5>1. id \in Nat
                BY <1>0, MessageIdsAssumption
          <5> QED
              BY <1>0, <5>1, SecondsNatural, LimitsAssumption DEF TooLate
        <4> QED
            BY <3>1, <4>1, <4>2, <4>3, <2>a, <1>0
      <3>2. CASE j # n + 1
        <4>a. i \in 1 .. n /\ j \in 1 .. n
          <5>1. n \in Nat
                BY <2>2
          <5> HIDE DEF n
          <5> QED
              BY <3>2, <5>1
        <4>1. /\ i \in DOMAIN delivered /\ j \in DOMAIN delivered
              /\ delivered'[i] = delivered[i] /\ delivered'[j] = delivered[j]
              BY <4>a, <2>a, DeliveredEntries
        <4> QED
            BY <4>1 DEF ReplayOnlyAcrossRestart
      <3> QED
          BY <3>1, <3>2
    <2> QED
        BY <1>0, <1>1, <2>3, <2>4, <2>5 DEF SentByServer, ExpiredForGood
  <1>4. CASE verdict'.result # "ok"
    <2>1. UNCHANGED delivered /\ refused' = id
          BY <1>4 DEF OfferToWindow
    <2>2. GuardTypeOK'
          BY <1>0, <1>2, <2>1 DEF GuardTypeOK
    <2> QED
        BY <1>0, <1>1, <1>4, <2>1, <2>2
           DEF SentByServer, ExpiredForGood, DeliveredThisRun, ReplayOnlyAcrossRestart
  <1> QED
      BY <1>3, <1>4

-----------------------------------------------------------------------------
(* Every step keeps the inductive invariant.                               *)
LEMMA NextInv == GuardInv /\ [GuardNext]_guardVars => GuardInv'
  <1> SUFFICES ASSUME GuardInv, [GuardNext]_guardVars PROVE GuardInv'
      OBVIOUS
  <1>1. CASE GuardNext
        BY <1>1, ClocksInv, ServerSendInv, RestartInv, RefuseInvalidInv, OfferInv
           DEF GuardNext, Receive
  <1>2. CASE UNCHANGED guardVars
    <2>1. IInv' /\ TypeOK'
          BY <1>2, WindowStands, TypesNext DEF guardVars, GuardInv
    <2>2. GuardTypeOK'
          BY <1>2, <2>1 DEF guardVars, history, GuardInv, GuardTypeOK
    <2> QED
        BY <1>2, <2>1, <2>2
           DEF guardVars, vars, history, GuardInv, SentByServer, DeliveredThisRun,
               ExpiredForGood, ReplayOnlyAcrossRestart
  <1> QED
      BY <1>1, <1>2

LEMMA Invariance == GuardSpec => []GuardInv
  <1> QED
      BY InitInv, NextInv, PTL DEF GuardSpec

(* The clocks, the window and the history keep their types.                *)
THEOREM GuardTypeCorrect == GuardSpec => []GuardTypeOK
  <1>1. GuardInv => GuardTypeOK
        BY DEF GuardInv
  <1> QED
      BY <1>1, Invariance, PTL

(* A message is delivered twice only across a restart, and the second copy *)
(* within PastLimit of the message's own second.                           *)
THEOREM ReplaysBounded == GuardSpec => []ReplayOnlyAcrossRestart
  <1>1. GuardInv => ReplayOnlyAcrossRestart
        BY DEF GuardInv
  <1> QED
      BY <1>1, Invariance, PTL

(* A copy in time is never refused while it is new to this run and fewer   *)
(* than Capacity newer messages were accepted.                             *)
THEOREM HonestIsDelivered == GuardSpec => NoHonestLoss
  <1>1. ASSUME GuardInv, [GuardNext]_guardVars, NEW id \in sent, InTime(id), id \notin accepted,
               Cardinality({a \in accepted : a > id}) < Capacity,
               refused' = id, refused # id
        PROVE  FALSE
    <2> USE <1>1
    <2>1. /\ id \in MessageIds /\ id \in Nat /\ id % 4 \in {1, 3} /\ hostClock \in Nat
          BY MessageIdsAssumption, BoundsAssumption DEF GuardInv, GuardTypeOK, SentByServer
    <2>2. Seconds(id) \in Nat
          BY <2>1, SecondsNatural
    <2>3. Valid(id, "server_to_client", hostClock)
          BY <2>1, <2>2, LimitsAssumption DEF Valid, ParityOk, TooLate, TooEarly, InTime
    <2>4. OfferToWindow(id) /\ verdict'.result # "ok"
          BY <2>3 DEF GuardNext, Receive, ServerTick, HostTick, ServerSend, Restart, RefuseInvalid,
                      OfferToWindow, guardVars, history
    <2>5. Cardinality({a \in accepted : a > id}) >= Capacity
          BY <2>1, <2>4, InsertDoes DEF GuardInv, OfferToWindow
    <2>6. Cardinality({a \in accepted : a > id}) \in Nat /\ Capacity \in Nat
      <3>1. IsFiniteSet({a \in accepted : a > id})
            BY FS_Subset DEF GuardInv
      <3> QED
          BY <3>1, FS_CardinalityType, CapacityAssumption
    <2> QED
        BY <2>5, <2>6
  <1>2. GuardInv /\ [GuardNext]_guardVars =>
            [\A id \in sent :
                /\ InTime(id) /\ id \notin accepted
                /\ Cardinality({a \in accepted : a > id}) < Capacity
                => ~(refused' = id /\ refused # id)]_guardVars
        BY <1>1
  <1> QED
      BY <1>2, Invariance, PTL DEF GuardSpec, NoHonestLoss

(* What was refused for its age is never delivered afterwards.             *)
THEOREM ExpiredNeverDelivered == GuardSpec => ExpiredStaysOut
  <1>1. ASSUME GuardInv, [GuardNext]_guardVars, NEW id \in expired, delivered' # delivered
        PROVE  delivered'[Len(delivered')].id # id
    <2> USE <1>1
    <2>1. PICK other \in sent : OfferToWindow(other) /\ verdict'.result = "ok"
          BY DEF GuardNext, Receive, ServerTick, HostTick, ServerSend, Restart, RefuseInvalid,
                 OfferToWindow, guardVars, history
    <2>2. other # id
          BY <2>1 DEF OfferToWindow, Valid, GuardInv, ExpiredForGood
    <2> DEFINE D == [id : sent, epoch : 0 .. epoch, at : 0 .. hostClock]
               new == [id |-> other, epoch |-> epoch, at |-> hostClock]
    <2>3. delivered' = Append(delivered, new) /\ delivered \in Seq(D)
          BY <2>1 DEF OfferToWindow, GuardInv, GuardTypeOK
    <2>4. new.id = other
          OBVIOUS
    <2> HIDE DEF D, new
    <2>5. delivered'[Len(delivered')] = new
          BY <2>3
    <2> QED
        BY <2>2, <2>4, <2>5
  <1>2. GuardInv /\ [GuardNext]_guardVars =>
            [\A id \in expired : delivered' # delivered =>
                delivered'[Len(delivered')].id # id]_guardVars
        BY <1>1
  <1> QED
      BY <1>2, Invariance, PTL DEF GuardSpec, ExpiredStaysOut
==============================================================================
