--------------------------- MODULE MessageIdWindow ---------------------------
(***************************************************************************)
(* The fixed replay window of mtproto/message_id.rs: an array of Capacity  *)
(* (32 in the code) identifiers of which the first `used` are live and     *)
(* sorted.  `insert` is one call on &mut self, so one call is one step;    *)
(* its four exits are the four actions below.                              *)
(*                                                                         *)
(* `accepted` and `verdict` are history: what the caller was told.         *)
(***************************************************************************)
EXTENDS Integers, FiniteSets, Functions

CONSTANTS
    Capacity,       \* the length of the ids array
    MessageIds      \* the identifiers callers may offer (u64 in the code)

ASSUME CapacityAssumption == Capacity \in Nat \ {0}
ASSUME MessageIdsAssumption == MessageIds \subseteq Nat

VARIABLES
    ids,            \* the array; slots past `used` keep their initial zero
    used,           \* how many slots are live
    accepted,       \* history: every identifier insert returned Ok for
    verdict         \* history: the last call and its result

vars == <<ids, used, accepted, verdict>>

Slots == 1 .. Capacity

(* The live prefix of the array as a set. *)
Tracked == {ids[i] : i \in 1 .. used}

(* What sort_unstable may leave in the first n slots of the array a: the   *)
(* same entries, rearranged in ascending order; the other slots untouched. *)
Rearranged(a, n, p) == [i \in Slots |-> IF i <= n THEN a[p[i]] ELSE a[i]]

Sortings(a, n) ==
    {Rearranged(a, n, p) :
        p \in {q \in Bijection(1 .. n, 1 .. n) :
                  \A i, j \in 1 .. n : i < j => a[q[i]] <= a[q[j]]}}

Answer(id, result) == verdict' = [id |-> id, result |-> result]

-----------------------------------------------------------------------------
Init ==
    /\ ids = [i \in Slots |-> 0]
    /\ used = 0
    /\ accepted = {}
    /\ verdict = [id |-> 0, result |-> "none"]

(* The identifier is in the live prefix: Authentication, detail 1. *)
InsertDuplicate(id) ==
    /\ id \in Tracked
    /\ Answer(id, "duplicate")
    /\ UNCHANGED <<ids, used, accepted>>

(* Mutant: the oldest entry is compared with before the window is full. *)
InsertBelowOldest(id) ==
    /\ id \notin Tracked
    /\ used > 0 /\ id < ids[1]
    /\ Answer(id, "too_old")
    /\ UNCHANGED <<ids, used, accepted>>

(* The window is full and the identifier is below all of it: detail 2. *)
InsertBelowWindow(id) ==
    /\ id \notin Tracked
    /\ used = Capacity
    /\ id < ids[1]
    /\ Answer(id, "too_old")
    /\ UNCHANGED <<ids, used, accepted>>

(* Mutant: the prefix is not sorted after the append. *)
InsertAppendUnsorted(id) ==
    /\ id \notin Tracked
    /\ used < Capacity
    /\ used' = used + 1
    /\ ids' = [ids EXCEPT ![used + 1] = id]
    /\ accepted' = accepted \cup {id}
    /\ Answer(id, "ok")

(* There is room: append, then sort the live prefix. *)
InsertAppend(id) ==
    /\ id \notin Tracked
    /\ used < Capacity
    /\ used' = used + 1
    /\ ids' \in Sortings([ids EXCEPT ![used + 1] = id], used + 1)
    /\ accepted' = accepted \cup {id}
    /\ Answer(id, "ok")

(* Mutant: the check for identifiers below the window is dropped. *)
InsertEvictUnchecked(id) ==
    /\ id \notin Tracked
    /\ used = Capacity
    /\ ids' \in Sortings([ids EXCEPT ![1] = id], used)
    /\ accepted' = accepted \cup {id}
    /\ Answer(id, "ok")
    /\ UNCHANGED used

(* The window is full: the oldest entry gives way, then sort. *)
InsertEvict(id) ==
    /\ id \notin Tracked
    /\ used = Capacity
    /\ ~(id < ids[1])
    /\ ids' \in Sortings([ids EXCEPT ![1] = id], used)
    /\ accepted' = accepted \cup {id}
    /\ Answer(id, "ok")
    /\ UNCHANGED used

Insert(id) ==
    \/ InsertDuplicate(id)
    \/ InsertBelowWindow(id)
    \/ InsertAppend(id)
    \/ InsertEvict(id)

Next == \E id \in MessageIds : Insert(id)

Spec == Init /\ [][Next]_vars

-----------------------------------------------------------------------------
(* The array holds identifiers, `used` stays within it, and a slot past    *)
(* `used` was never written.                                               *)
TypeOK ==
    /\ ids \in [Slots -> MessageIds \cup {0}]
    /\ used \in 0 .. Capacity
    /\ accepted \subseteq MessageIds
    /\ verdict \in [id : MessageIds \cup {0},
                    result : {"none", "ok", "duplicate", "too_old"}]

(* The live prefix is strictly ascending: binary order and no identifier   *)
(* tracked twice, so ids[1] is the oldest one whenever it is compared with.*)
StrictlySorted == \A i, j \in 1 .. used : i < j => ids[i] < ids[j]

(* Whatever was accepted is either still tracked or is older than all that *)
(* is tracked, and forgetting only starts once the array is full.          *)
WindowIsNewest ==
    /\ Tracked \subseteq accepted
    /\ used < Capacity => accepted = Tracked
    /\ \A a \in accepted \ Tracked : \A t \in Tracked : a < t

(* No step accepts an identifier that was accepted before, however many    *)
(* identifiers came in between and however the entry was evicted.          *)
NoReplay ==
    [][\A id \in MessageIds :
           InsertAppend(id) \/ InsertEvict(id) => id \notin accepted]_vars

(* The window does exactly what the set-based specification promises: in   *)
(* particular it refuses a fresh identifier only when Capacity newer ones  *)
(* were accepted.                                                          *)
Abstract == INSTANCE AtMostOnce
ImplementsAtMostOnce == Abstract!Spec
=============================================================================
