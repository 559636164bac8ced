--------------------------- MODULE AuthKeyHandshake ---------------------------
(***************************************************************************)
(* The client side of the authorization-key exchange, auth_key.rs, with    *)
(* the host that carries its messages and the server it talks to.          *)
(*                                                                         *)
(* AuthKeyHandshake keeps no socket and sends nothing: each method takes a *)
(* body that arrived and writes the next one, which the host transmits.    *)
(* The host may lose its connection, retransmit what it last got, be given *)
(* late and repeated answers, run out of output space or of randomness,    *)
(* call the failed method again, or give the object up and start over.     *)
(*                                                                         *)
(* Cryptography is symbolic: a key is the pair of exponents it came from,  *)
(* a hash is what was hashed, and a ciphertext is readable to the holder   *)
(* of the nonces its temporary key came from.                              *)
(***************************************************************************)
EXTENDS Integers, Sequences, FiniteSets

CONSTANTS
    MaxHandshakes,      \* bound: handshake objects the host creates
    MaxFaults           \* bound: everything below that counts as a fault

ASSUME BoundsAssumption == MaxHandshakes \in Nat \ {0} /\ MaxFaults \in Nat

VARIABLES
    \* the AuthKeyHandshake object
    nonce,              \* client nonce; new_nonce is drawn with it
    serverNonce,
    gA,                 \* the server's public value
    authKey,            \* a key, a bare exponent, or Zero
    serverTime,
    state,              \* 0, 1, 2 or 3
    \* the host
    pending,            \* the last body a method wrote, to (re)transmit
    materials,          \* history: every AuthKeyMaterial finish returned
    exponents,          \* how many exponents b were drawn
    \* the connection and the server
    net,                \* bodies in transit or still to be seen again
    sessions,           \* server nonce -> its nonce, verdict and exponent b
    faults

object == <<nonce, serverNonce, gA, authKey, serverTime, state>>
host == <<pending, materials, exponents>>
vars == <<object, host, net, sessions, faults>>

Zero == [kind |-> "zero"]
Exponent(b) == [kind |-> "exponent", b |-> b]
Key(a, b) == [kind |-> "key", a |-> a, b |-> b]
Nothing == [type |-> "nothing"]

(* Session s uses a as its exponent and tells the time as follows.         *)
ExponentOf(s) == s
TimeOf(s) == 100 + s
DamagedTime == 1

(* The bodies.  A resPQ is usable when it lists the pinned fingerprint and *)
(* its pq factors; server_DH_params_ok is intact when its SHA-1 matches    *)
(* and its generator, prime and g_a are admissible.                        *)
ReqPq(n) == [type |-> "req_pq", nonce |-> n]
ResPq(n, s, usable) ==
    [type |-> "res_pq", nonce |-> n, session |-> s, usable |-> usable]
ReqDh(n, s) == [type |-> "req_dh", nonce |-> n, session |-> s, newNonce |-> n]
ServerDh(n, s, time, intact) ==
    [type |-> "server_dh", nonce |-> n, session |-> s,
     a |-> ExponentOf(s), time |-> time, intact |-> intact]
SetClientDh(n, s, b) ==
    [type |-> "set_client_dh", nonce |-> n, session |-> s, b |-> b]
DhGen(answer, n, s, key) ==
    [type |-> "dh_gen", answer |-> answer, nonce |-> n, session |-> s,
     hash |-> <<n, key>>]

Fault == faults < MaxFaults /\ faults' = faults + 1
NoFault == UNCHANGED faults

-----------------------------------------------------------------------------
(* AuthKeyHandshake::new draws both nonces; write_req_pq may be called at  *)
(* once and always writes the same body.                                   *)
Init ==
    /\ nonce = 1
    /\ serverNonce = 0 /\ gA = 0 /\ authKey = Zero /\ serverTime = 0
    /\ state = 0
    /\ pending = ReqPq(1)
    /\ materials = {} /\ exponents = 0
    /\ net = {}
    /\ sessions = << >>
    /\ faults = 0

(* The host gives the object up (its Drop wipes it) and creates a new one. *)
StartOver ==
    /\ nonce < MaxHandshakes /\ state < 3
    /\ Fault
    /\ nonce' = nonce + 1
    /\ serverNonce' = 0 /\ gA' = 0 /\ authKey' = Zero /\ serverTime' = 0
    /\ state' = 0
    /\ pending' = ReqPq(nonce + 1)
    /\ UNCHANGED <<materials, exponents, net, sessions>>

(* The host writes its last body to the connection, again if need be.      *)
Transmit ==
    /\ pending # Nothing /\ pending \notin net
    /\ net' = net \cup {pending}
    /\ UNCHANGED <<object, host, sessions, faults>>

(* Everything in transit is lost with the connection.                      *)
ConnectionLost ==
    /\ net # {}
    /\ Fault
    /\ net' = {}
    /\ UNCHANGED <<object, host, sessions>>

-----------------------------------------------------------------------------
(* accept_res_pq.  server_nonce is stored before the rest is checked, and  *)
(* `state` is the last thing written.                                      *)
AcceptableResPq(m) ==
    m.type = "res_pq" /\ state = 0 /\ m.nonce = nonce

AcceptResPq(m) ==
    /\ AcceptableResPq(m) /\ m.usable
    /\ serverNonce' = m.session
    /\ state' = 1
    /\ pending' = ReqDh(nonce, m.session)
    /\ NoFault
    /\ UNCHANGED <<nonce, gA, authKey, serverTime, materials, exponents,
                   net, sessions>>

(* Mutant: `state` is advanced before the checks that can still fail.      *)
FailResPqAdvanced(m) ==
    /\ AcceptableResPq(m)
    /\ IF m.usable THEN Fault ELSE NoFault
    /\ serverNonce' = m.session
    /\ state' = 1
    /\ UNCHANGED <<nonce, gA, authKey, serverTime, host, net, sessions>>

(* An unusable answer, no randomness for the RSA padding, or no space for  *)
(* the output: an error, with server_nonce already replaced.               *)
FailResPq(m) ==
    /\ AcceptableResPq(m)
    /\ IF m.usable THEN Fault ELSE NoFault
    /\ serverNonce' = m.session
    /\ UNCHANGED <<nonce, gA, authKey, serverTime, state, host, net, sessions>>

-----------------------------------------------------------------------------
(* accept_server_dh up to the nonces of the decrypted answer.              *)
ReadableServerDh(m) ==
    /\ m.type = "server_dh" /\ state = 1
    /\ m.nonce = nonce /\ m.session = serverNonce

(* Mutants: `state` is not advanced; the hash of the decrypted answer is   *)
(* not checked.                                                            *)
AcceptServerDhFrom(m, checks, next) ==
    /\ m.type = "server_dh" /\ checks
    /\ m.nonce = nonce /\ m.session = serverNonce
    /\ serverTime' = m.time
    /\ gA' = m.a
    /\ exponents' = exponents + 1
    /\ authKey' = Key(m.a, exponents + 1)
    /\ pending' = SetClientDh(nonce, serverNonce, exponents + 1)
    /\ state' = next
    /\ NoFault
    /\ UNCHANGED <<nonce, serverNonce, materials, net, sessions>>
AcceptServerDhStaying(m) == AcceptServerDhFrom(m, state = 1 /\ m.intact, 1)
AcceptServerDhUnhashed(m) == AcceptServerDhFrom(m, state = 1, 2)

(* Everything succeeds: auth_key holds the shared key, the body with g^b   *)
(* is written, and `state` moves on.                                       *)
AcceptServerDh(m) ==
    /\ ReadableServerDh(m) /\ m.intact
    /\ serverTime' = m.time
    /\ gA' = m.a
    /\ exponents' = exponents + 1
    /\ authKey' = Key(m.a, exponents + 1)
    /\ pending' = SetClientDh(nonce, serverNonce, exponents + 1)
    /\ state' = 2
    /\ NoFault
    /\ UNCHANGED <<nonce, serverNonce, materials, net, sessions>>

(* The hash does not match, or the parameters are refused: server_time     *)
(* already holds what was decrypted.                                       *)
FailServerDhChecks(m) ==
    /\ ReadableServerDh(m) /\ ~m.intact
    /\ serverTime' = m.time
    /\ NoFault
    /\ UNCHANGED <<nonce, serverNonce, gA, authKey, state, host, net, sessions>>

(* Mutant: `state` is advanced before the output is written.               *)
FailServerDhAdvanced(m) ==
    /\ ReadableServerDh(m) /\ m.intact
    /\ Fault
    /\ serverTime' = m.time /\ gA' = m.a
    /\ exponents' = exponents + 1
    /\ authKey' = Key(m.a, exponents + 1)
    /\ state' = 2
    /\ UNCHANGED <<nonce, serverNonce, pending, materials, net, sessions>>

(* The random source fails, g^b is out of range, or the padding's random   *)
(* bytes or the output space are missing: auth_key is left with part of an *)
(* exponent, the exponent, or the shared key of a body never sent.         *)
FailServerDhLate(m) ==
    /\ ReadableServerDh(m) /\ m.intact
    /\ Fault
    /\ serverTime' = m.time
    /\ gA' = m.a
    /\ exponents' = exponents + 1
    /\ authKey' \in {Exponent(exponents + 1), Key(m.a, exponents + 1)}
    /\ UNCHANGED <<nonce, serverNonce, state, pending, materials, net, sessions>>

-----------------------------------------------------------------------------
(* Mutant: the key stays in the object once the material is out.           *)
FinishKeepingKey(m) ==
    /\ m.type = "dh_gen" /\ state = 2 /\ m.answer = "ok"
    /\ m.nonce = nonce /\ m.session = serverNonce
    /\ m.hash = <<nonce, authKey>>
    /\ materials' = materials \cup
          {[nonce |-> nonce, key |-> authKey,
            salt |-> <<nonce, serverNonce>>, time |-> serverTime]}
    /\ state' = 3 /\ pending' = Nothing /\ NoFault
    /\ UNCHANGED <<nonce, serverNonce, gA, authKey, serverTime, exponents,
                   net, sessions>>

(* finish, on dh_gen_ok with matching nonces and hash: the material leaves *)
(* the object, which forgets the key.  Any other answer is an error that   *)
(* changes nothing, dh_gen_retry and dh_gen_fail included.                 *)
Finish(m) ==
    /\ m.type = "dh_gen" /\ state = 2
    /\ m.answer = "ok"
    /\ m.nonce = nonce /\ m.session = serverNonce
    /\ m.hash = <<nonce, authKey>>
    /\ materials' = materials \cup
          {[nonce |-> nonce, key |-> authKey,
            salt |-> <<nonce, serverNonce>>, time |-> serverTime]}
    /\ authKey' = Zero
    /\ state' = 3
    /\ pending' = Nothing
    /\ NoFault
    /\ UNCHANGED <<nonce, serverNonce, gA, serverTime, exponents, net, sessions>>

-----------------------------------------------------------------------------
(* The server: a session per request it sees, one more for a request seen  *)
(* twice, then one answer per session and body, repeated when asked again. *)
Sessions == DOMAIN sessions

ServerResPq(m) ==
    /\ m.type = "req_pq"
    /\ \E usable \in BOOLEAN :
          LET s == Len(sessions) + 1
              first == \A r \in net : r.type = "res_pq" /\ r.nonce = m.nonce
                                        => ~r.usable
          IN  /\ IF usable /\ first THEN NoFault ELSE Fault
              /\ net' = net \cup {ResPq(m.nonce, s, usable)}
              /\ sessions' = Append(sessions, [nonce |-> m.nonce,
                                               answer |-> "none", b |-> 0])
    /\ UNCHANGED <<object, host>>

(* An answer that is not intact decrypts and then fails the checks.        *)
ServerDhParams(m) ==
    /\ m.type = "req_dh"
    /\ \E intact \in BOOLEAN :
          /\ IF intact THEN NoFault ELSE Fault
          /\ LET answer == ServerDh(m.nonce, m.session,
                                    IF intact THEN TimeOf(m.session)
                                    ELSE DamagedTime, intact)
             IN  answer \notin net /\ net' = net \cup {answer}
    /\ UNCHANGED <<object, host, sessions>>

(* The first body decides: the key is registered, or the server wants      *)
(* another one, or refuses.  The answer's hash may be damaged on its way.  *)
ServerDhGen(m) ==
    /\ m.type = "set_client_dh"
    /\ \E answer \in {"ok", "retry", "fail"}, intact \in BOOLEAN :
          LET s == m.session
              key == Key(ExponentOf(s), m.b)
              first == sessions[s].answer = "none"
              gen == DhGen(answer, m.nonce, s, IF intact THEN key ELSE Zero)
          IN  /\ first \/ sessions[s].answer = answer
              /\ IF intact /\ (answer = "ok" \/ ~first) THEN NoFault ELSE Fault
              /\ gen \notin net /\ net' = net \cup {gen}
              /\ sessions' = IF first
                             THEN [sessions EXCEPT ![s] = [nonce |-> m.nonce,
                                                           answer |-> answer, b |-> m.b]]
                             ELSE sessions
    /\ UNCHANGED <<object, host>>

-----------------------------------------------------------------------------
ClientAccepts == \E m \in net : AcceptResPq(m) \/ AcceptServerDh(m) \/ Finish(m)
ClientFails ==
    \E m \in net : FailResPq(m) \/ FailServerDhChecks(m) \/ FailServerDhLate(m)
ServerAnswers ==
    \E m \in net : ServerResPq(m) \/ ServerDhParams(m) \/ ServerDhGen(m)

Next ==
    \/ StartOver \/ Transmit \/ ConnectionLost
    \/ ClientAccepts \/ ClientFails \/ ServerAnswers

(* The host transmits, hands over what arrives and tries again what failed;*)
(* the server answers.  Faults are never obliged to happen.                *)
Fairness ==
    /\ WF_vars(Transmit) /\ WF_vars(ClientAccepts)
    /\ WF_vars(ServerAnswers /\ faults' = faults)

Spec == Init /\ [][Next]_vars /\ Fairness

-----------------------------------------------------------------------------
Nonces == 1 .. MaxHandshakes
SessionIds == 1 .. Len(sessions)
Secrets == [kind : {"zero"}] \cup [kind : {"exponent"}, b : Nat]
                             \cup [kind : {"key"}, a : Nat, b : Nat]

TypeOK ==
    /\ nonce \in Nonces /\ state \in 0 .. 3 /\ faults \in 0 .. MaxFaults
    /\ {serverNonce, gA} \subseteq 0 .. Len(sessions)
    /\ authKey \in Secrets /\ serverTime \in Nat /\ exponents \in Nat
    /\ pending.type \in {"nothing", "req_pq", "req_dh", "set_client_dh"}
    /\ sessions \in Seq([nonce : Nat, answer : {"none", "ok", "retry", "fail"}, b : Nat])
    /\ materials \subseteq [nonce : Nonces, key : Secrets, time : Nat,
                            salt : Nonces \X Nat]

(* What finish returns is what the server registered: its key, with the    *)
(* salt and the time of the same session, whatever was repeated, failed    *)
(* half-way or left over from an earlier handshake on the way there.       *)
KeyAgreement ==
    \A m \in materials : \E s \in SessionIds :
        /\ sessions[s].nonce = m.nonce /\ sessions[s].answer = "ok"
        /\ m.key = Key(ExponentOf(s), sessions[s].b)
        /\ m.salt = <<m.nonce, s>>
        /\ m.time = TimeOf(s)

(* While an answer is awaited, the object holds the shared key of the very *)
(* body the host may retransmit, and of the server nonce in it: a failed   *)
(* call never leaves another attempt's exponent or key behind.             *)
AwaitsItsOwnKey ==
    state = 2 =>
        /\ pending.type = "set_client_dh"
        /\ pending.nonce = nonce /\ pending.session = serverNonce
        /\ authKey = Key(ExponentOf(serverNonce), pending.b)

(* A handshake yields its material once, and forgets the key with it.      *)
KeyLeavesOnce ==
    /\ \A m1, m2 \in materials : m1.nonce = m2.nonce => m1 = m2
    /\ state = 3 => authKey = Zero /\ \E m \in materials : m.nonce = nonce

(* A server never sees two exponents for one session: what was computed in *)
(* a call that failed is never sent, and no later call sends a second one. *)
OneExponentPerSession ==
    \A m1, m2 \in {m \in net \cup {pending} : m.type = "set_client_dh"} :
        m1.session = m2.session => m1 = m2

(* Every handshake that the host keeps driving ends: with the material, or *)
(* refused by the server, where the object has no way on (dh_gen_retry     *)
(* included: retry_id is always 0 and state stays 2).                      *)
Refused == state = 2 /\ sessions[serverNonce].answer \in {"retry", "fail"}

Ends == <>[](state = 3 \/ Refused)
===============================================================================
