------------------------------ MODULE AtMostOnce ------------------------------
(***************************************************************************)
(* What a replay window of Capacity entries promises, stated over the set  *)
(* of everything it ever accepted and without any array, order or          *)
(* eviction: an offered identifier is answered "duplicate" when it was     *)
(* accepted before and is still among the Capacity newest, "too_old" when  *)
(* Capacity or more newer ones were accepted, and is accepted otherwise.   *)
(***************************************************************************)
EXTENDS Integers, FiniteSets

CONSTANTS
    Capacity,       \* how many identifiers the window remembers
    MessageIds      \* the identifiers that can be offered

VARIABLES
    accepted,       \* every identifier accepted so far
    verdict         \* the last answer: [id |-> ..., result |-> ...]

vars == <<accepted, verdict>>

Results == {"none", "ok", "duplicate", "too_old"}

(* The accepted identifiers that are newer than id. *)
Newer(id) == {a \in accepted : a > id}

Init ==
    /\ accepted = {}
    /\ verdict = [id |-> 0, result |-> "none"]

Accept(id) ==
    /\ id \notin accepted
    /\ Cardinality(Newer(id)) < Capacity
    /\ accepted' = accepted \cup {id}
    /\ verdict' = [id |-> id, result |-> "ok"]

RefuseDuplicate(id) ==
    /\ id \in accepted
    /\ Cardinality(Newer(id)) < Capacity
    /\ verdict' = [id |-> id, result |-> "duplicate"]
    /\ UNCHANGED accepted

RefuseTooOld(id) ==
    /\ Cardinality(Newer(id)) >= Capacity
    /\ verdict' = [id |-> id, result |-> "too_old"]
    /\ UNCHANGED accepted

Next ==
    \E id \in MessageIds :
        Accept(id) \/ RefuseDuplicate(id) \/ RefuseTooOld(id)

Spec == Init /\ [][Next]_vars
===============================================================================
