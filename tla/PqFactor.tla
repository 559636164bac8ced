------------------------------- MODULE PqFactor -------------------------------
(***************************************************************************)
(* auth_key.rs: factor_pq, Pollard's rho with Floyd's cycle search, which  *)
(* splits the server's pq.  An attempt walks x -> x^2 + c and, twice as    *)
(* fast, y; it ends when their difference shares a factor with pq.  If     *)
(* this factor is pq itself the attempt was in vain, and another constant  *)
(* is tried.                                                               *)
(*                                                                         *)
(* x, y and c stay below 2pq + 64, which 64 bits hold for every pq of the   *)
(* protocol (below 2^63); `seed` is one byte of the nonce.                 *)
(***************************************************************************)
EXTENDS Integers, Sequences

CONSTANTS
    Numbers,        \* what a server may send as pq
    Seeds,          \* the first byte of a nonce
    Attempts,       \* 32
    Rounds,         \* 200_000
    MaxFactor       \* u32::MAX

ASSUME NumbersAssumption ==
    /\ Numbers \subseteq Nat /\ Seeds \subseteq Nat
    /\ Attempts \in Nat /\ Rounds \in Nat /\ MaxFactor \in Nat

VARIABLES
    pq, seed,
    constant,       \* c, the constant of this attempt
    attempt,        \* attempts that failed
    tortoise, hare, \* x and y
    divisor,        \* d, the common factor of the last round, 1 before one is found
    round,          \* rounds of this attempt
    outcome         \* <<>>, <<an error's kind>>, or the two factors

factorVars ==
    <<pq, seed, constant, attempt, tortoise, hare, divisor, round, outcome>>

Running == outcome = <<>>

(* The greatest common divisor, by what it is; the code computes it with   *)
(* Euclid's loop.  Gcd(0, b) = b.                                          *)
Gcd(a, b) ==
    CHOOSE g \in 1 .. b :
        /\ a % g = 0 /\ b % g = 0
        /\ \A h \in g + 1 .. b : ~(a % h = 0 /\ b % h = 0)

Distance(a, b) == IF a > b THEN a - b ELSE b - a
Lesser(a, b) == IF a < b THEN a ELSE b

Factorable(m) == m >= 15 /\ m % 2 = 1
Start(m, s, c) == 2 + ((s + c) % (m - 3))

FactorInit ==
    /\ pq \in Numbers /\ seed \in Seeds
    /\ constant = IF Factorable(pq) THEN 1 + (seed % (pq - 1)) ELSE 0
    /\ tortoise = IF Factorable(pq) THEN Start(pq, seed, constant) ELSE 0
    /\ hare = tortoise /\ divisor = 1 /\ round = 0 /\ attempt = 0
    /\ outcome = <<>>

Unfactorable ==
    /\ Running /\ ~Factorable(pq)
    /\ outcome' = <<"InvalidPacket">>
    /\ UNCHANGED <<pq, seed, constant, attempt, tortoise, hare, divisor, round>>

Walk(z) == (z * z + constant) % pq

Round ==
    /\ Running /\ Factorable(pq) /\ attempt < Attempts
    /\ divisor = 1 /\ round < Rounds
    /\ tortoise' = Walk(tortoise) /\ hare' = Walk(Walk(hare))
    /\ divisor' = Gcd(Distance(tortoise', hare'), pq)
    /\ round' = round + 1
    /\ UNCHANGED <<pq, seed, constant, attempt, outcome>>

AttemptEnds == Running /\ attempt < Attempts /\ (divisor > 1 \/ round = Rounds)

(* Mutant: the number itself counts as a factor.                           *)
SplitsAnyway ==
    divisor > 1 /\ divisor <= MaxFactor /\ pq \div divisor <= MaxFactor

Splits ==
    /\ divisor > 1 /\ divisor < pq
    /\ divisor <= MaxFactor /\ pq \div divisor <= MaxFactor

(* The factors, the smaller one first.                                     *)
Split ==
    /\ AttemptEnds /\ Splits
    /\ LET p == Lesser(divisor, pq \div divisor)
       IN  outcome' = <<p, pq \div p>>
    /\ UNCHANGED <<pq, seed, constant, attempt, tortoise, hare, divisor, round>>

(* Mutant: the next attempt walks the same way.                            *)
RetryAlike ==
    /\ AttemptEnds /\ ~Splits
    /\ attempt' = attempt + 1
    /\ tortoise' = Start(pq, seed, constant) /\ hare' = tortoise'
    /\ divisor' = 1 /\ round' = 0
    /\ UNCHANGED <<pq, seed, constant, outcome>>

Retry ==
    /\ AttemptEnds /\ ~Splits
    /\ attempt' = attempt + 1
    /\ constant' = constant + 2
    /\ tortoise' = Start(pq, seed, constant') /\ hare' = tortoise'
    /\ divisor' = 1 /\ round' = 0
    /\ UNCHANGED <<pq, seed, outcome>>

GiveUp ==
    /\ Running /\ attempt = Attempts
    /\ outcome' = <<"LimitExceeded">>
    /\ UNCHANGED <<pq, seed, constant, attempt, tortoise, hare, divisor, round>>

FactorNext == Unfactorable \/ Round \/ Split \/ Retry \/ GiveUp

FactorSpec == FactorInit /\ [][FactorNext]_factorVars

-----------------------------------------------------------------------------
Prime(p) == p > 1 /\ \A k \in 2 .. p - 1 : p % k # 0

(* pq is the product of two odd primes that 32 bits hold.                  *)
IsProduct(p) ==
    /\ pq % p = 0 /\ Prime(p) /\ Prime(pq \div p)
    /\ p <= pq \div p /\ pq \div p <= MaxFactor

(* The two numbers factor_pq returns make up pq, neither of them is 1, and *)
(* the smaller comes first; so if pq is the product of two primes they are *)
(* these primes, however the walk found them.                              *)
FactorsAreThePrimes ==
    Len(outcome) = 2 =>
        /\ outcome[1] * outcome[2] = pq
        /\ 1 < outcome[1] /\ outcome[1] <= outcome[2] /\ outcome[2] <= MaxFactor
        /\ \A p \in 2 .. pq : IsProduct(p) => outcome = <<p, pq \div p>>

(* A pq the server may send, the product of two odd primes, is split       *)
(* whatever the nonce is: none uses up the attempts.                       *)
SplitsEveryProduct ==
    Factorable(pq) /\ (\E p \in 3 .. pq : IsProduct(p)) =>
        outcome \notin {<<"InvalidPacket">>, <<"LimitExceeded">>}
===============================================================================
