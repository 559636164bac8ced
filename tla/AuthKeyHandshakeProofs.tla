------------------------ MODULE AuthKeyHandshakeProofs ------------------------
(***************************************************************************)
(* The safety invariants of AuthKeyHandshake for any number of handshakes  *)
(* and faults.                                                             *)
(*                                                                         *)
(* Agreement is about materials, and every step towards it is a body that  *)
(* was sent at some time and may still arrive.  The inductive invariant    *)
(* therefore says what every body in transit is worth (WellFormed), what a *)
(* server session can have decided by now (Undecided), what the object     *)
(* holds while it waits (Awaiting), and that a handshake which has not     *)
(* sent its exponent has no body with one anywhere (FreshExponent).        *)
(***************************************************************************)
EXTENDS AuthKeyHandshake, SequenceTheorems, TLAPS

Bodies == net \cup {pending}
Types == {"nothing", "req_pq", "res_pq", "req_dh", "server_dh", "set_client_dh", "dh_gen"}

SessionTypes ==
    sessions \in Seq([nonce : Nat, answer : {"none", "ok", "retry", "fail"}, b : Nat])

Counters ==
    /\ nonce \in Nat \ {0} /\ exponents \in Nat /\ state \in 0 .. 3
    /\ SessionTypes

(* A body names a session of its own handshake, and says of it what the    *)
(* server knows.                                                           *)
OfSession(m) ==
    m.type \notin {"nothing", "req_pq"} =>
        m.session \in SessionIds /\ sessions[m.session].nonce = m.nonce

HonestDh(m) ==
    m.type = "server_dh" => /\ m.a = ExponentOf(m.session) /\ m.time \in Nat
                            /\ m.intact => m.time = TimeOf(m.session)

HonestExponent(m) ==
    m.type = "set_client_dh" =>
        /\ m = SetClientDh(m.nonce, m.session, m.b) /\ m.b \in Nat
        /\ sessions[m.session].answer # "none" => sessions[m.session].b = m.b

HonestGen(m) ==
    m.type = "dh_gen" =>
        /\ m.answer # "none" /\ sessions[m.session].answer = m.answer
        /\ m.hash \in {<<m.nonce, Key(ExponentOf(m.session), sessions[m.session].b)>>,
                       <<m.nonce, Zero>>}

Honest(m) ==
    /\ m.type \in Types /\ (m.type # "nothing" => m.nonce \in 1 .. nonce)
    /\ OfSession(m) /\ HonestDh(m) /\ HonestExponent(m) /\ HonestGen(m)

WellFormed == \A m \in Bodies : Honest(m)

(* As long as this handshake sent no exponent, no session of it is decided.*)
Undecided ==
    \A s \in SessionIds :
        /\ sessions[s].nonce \in 1 .. nonce
        /\ sessions[s].nonce = nonce /\ state < 2 => sessions[s].answer = "none"

FreshExponent ==
    state < 2 => \A m \in Bodies : m.type = "set_client_dh" => m.nonce # nonce

Awaiting ==
    state = 2 =>
        /\ pending = SetClientDh(nonce, serverNonce, pending.b)
        /\ authKey = Key(ExponentOf(serverNonce), pending.b)
        /\ serverTime = TimeOf(serverNonce)

MaterialsInOrder ==
    \A m \in materials : m.nonce \in 1 .. nonce /\ (m.nonce = nonce => state = 3)

IInv ==
    /\ Counters /\ WellFormed /\ Undecided /\ FreshExponent /\ Awaiting
    /\ MaterialsInOrder /\ KeyAgreement /\ KeyLeavesOnce /\ OneExponentPerSession

USE DEF SessionIds

(* The initial states satisfy the inductive invariant.                     *)
LEMMA InitInv == Init => IInv
  <1> SUFFICES ASSUME Init PROVE IInv
      OBVIOUS
  <1>1. sessions = <<>> /\ Bodies = {ReqPq(1)}
        BY DEF Init, Bodies
  <1>2. Counters
        BY DEF Init, Counters, SessionTypes
  <1>3. WellFormed /\ FreshExponent /\ OneExponentPerSession
        BY <1>1 DEF Init, WellFormed, Honest, Bodies, Types, ReqPq, OfSession, HonestDh, HonestExponent,
                    HonestGen, FreshExponent, OneExponentPerSession
  <1> QED
      BY <1>1, <1>2, <1>3
         DEF Init, IInv, Undecided, Awaiting, MaterialsInOrder, KeyAgreement, KeyLeavesOnce

-----------------------------------------------------------------------------
(* The host's steps.                                                       *)
LEMMA StartOverInv == ASSUME IInv, StartOver PROVE IInv'
  <1> USE DEF IInv, StartOver
  <1>1. Counters'
        BY DEF Counters, SessionTypes
  <1>2. \A m \in Bodies' : m \in Bodies \/ m = ReqPq(nonce')
        BY DEF Bodies
  <1>3. WellFormed'
    <2> SUFFICES ASSUME NEW m \in Bodies'
                 PROVE  Honest(m)'
        BY DEF WellFormed
    <2>1. CASE m \in Bodies
          BY <2>1 DEF WellFormed, Honest, OfSession, HonestDh, HonestExponent, HonestGen, Counters
    <2>2. CASE m = ReqPq(nonce')
          BY <2>2 DEF ReqPq, Types, Honest, OfSession, HonestDh, HonestExponent, HonestGen, Counters
    <2> QED
        BY <1>2, <2>1, <2>2
  <1>4. Undecided'
        BY DEF Undecided, Counters
  <1>5. FreshExponent' /\ OneExponentPerSession'
    <2>1. \A m \in Bodies' : m.type = "set_client_dh" => m \in Bodies
          BY <1>2 DEF ReqPq
    <2> QED
        BY <2>1 DEF FreshExponent, OneExponentPerSession, WellFormed, Honest, Counters, Bodies
  <1>6. (Awaiting /\ MaterialsInOrder /\ KeyAgreement /\ KeyLeavesOnce)'
        BY DEF Awaiting, MaterialsInOrder, KeyAgreement, KeyLeavesOnce, Counters
  <1> QED
      BY <1>1, <1>3, <1>4, <1>5, <1>6

(* Steps that send nothing new and leave what an awaited answer needs: the *)
(* host transmits again, the network loses, a call fails.                  *)
LEMMA NothingNew ==
    ASSUME IInv, Bodies' \subseteq Bodies,
           UNCHANGED <<nonce, state, pending, sessions, materials>>,
           exponents' \in Nat,
           state >= 2 => UNCHANGED <<serverNonce, authKey, serverTime>>
    PROVE  IInv'
  <1> USE DEF IInv
  <1>1. Counters' /\ Undecided' /\ MaterialsInOrder' /\ KeyAgreement'
        BY DEF Counters, SessionTypes, Undecided, MaterialsInOrder, KeyAgreement
  <1>2. WellFormed'
        BY DEF WellFormed, Honest, OfSession, HonestDh, HonestExponent, HonestGen
  <1>3. FreshExponent' /\ OneExponentPerSession'
        BY DEF FreshExponent, OneExponentPerSession, Bodies
  <1>4. Awaiting' /\ KeyLeavesOnce'
        BY DEF Awaiting, KeyLeavesOnce
  <1> QED
      BY <1>1, <1>2, <1>3, <1>4

(* A step that adds one honest body other than an exponent, and leaves the *)
(* object alone.                                                           *)
LEMMA OneHonestBody ==
    ASSUME IInv, NEW new, new.type # "set_client_dh",
           net' = net \cup {new}, UNCHANGED <<object, host>>,
           Counters', Undecided', Honest(new)',
           \A m \in Bodies : Honest(m)',
           \A s \in SessionIds : sessions[s].answer = "ok" =>
               s \in SessionIds' /\ sessions'[s] = sessions[s]
    PROVE  IInv'
  <1> USE DEF IInv, object, host
  <1>1. \A m \in Bodies' : m \in Bodies \/ m = new
        BY DEF Bodies
  <1>2. WellFormed'
        BY <1>1 DEF WellFormed
  <1>3. FreshExponent' /\ OneExponentPerSession'
        BY <1>1 DEF FreshExponent, OneExponentPerSession, Bodies
  <1>4. KeyAgreement'
    <2> SUFFICES ASSUME NEW m \in materials
                 PROVE  \E s \in SessionIds' :
                            /\ sessions'[s].nonce = m.nonce /\ sessions'[s].answer = "ok"
                            /\ m.key = Key(ExponentOf(s), sessions'[s].b)
                            /\ m.salt = <<m.nonce, s>>
                            /\ m.time = TimeOf(s)
        BY DEF KeyAgreement
    <2>1. PICK s \in SessionIds :
                            /\ sessions[s].nonce = m.nonce /\ sessions[s].answer = "ok"
                            /\ m.key = Key(ExponentOf(s), sessions[s].b)
                            /\ m.salt = <<m.nonce, s>>
                            /\ m.time = TimeOf(s)
          BY DEF KeyAgreement
    <2>2. s \in SessionIds' /\ sessions'[s] = sessions[s]
          BY <2>1
    <2> QED
        BY <2>1, <2>2
  <1>5. (Awaiting /\ MaterialsInOrder /\ KeyLeavesOnce)'
        BY DEF Awaiting, MaterialsInOrder, KeyLeavesOnce
  <1> QED
      BY <1>2, <1>3, <1>4, <1>5

LEMMA TransmitInv == ASSUME IInv, Transmit PROVE IInv'
  <1>1. Bodies' \subseteq Bodies
        BY DEF Transmit, Bodies, host
  <1> QED
      BY <1>1, NothingNew DEF Transmit, object, host, IInv, Counters

LEMMA ConnectionLostInv == ASSUME IInv, ConnectionLost PROVE IInv'
  <1>1. Bodies' \subseteq Bodies
        BY DEF ConnectionLost, Bodies, host
  <1> QED
      BY <1>1, NothingNew DEF ConnectionLost, object, host, IInv, Counters

-----------------------------------------------------------------------------
(* The methods of the object that fail change nothing an awaited answer    *)
(* needs: they fail in the states before one is awaited.                   *)
LEMMA FailInv ==
    ASSUME IInv, NEW m \in net,
           FailResPq(m) \/ FailServerDhChecks(m) \/ FailServerDhLate(m)
    PROVE  IInv'
  <1>1. Bodies' \subseteq Bodies /\ exponents' \in Nat
        BY DEF FailResPq, FailServerDhChecks, FailServerDhLate, Bodies, host, IInv, Counters
  <1>2. CASE FailResPq(m)
    <2>1. UNCHANGED <<nonce, state, pending, sessions, materials>> /\ state = 0
          BY <1>2 DEF FailResPq, AcceptableResPq, host
    <2> QED
        BY <1>1, <2>1, NothingNew
  <1>3. CASE FailServerDhChecks(m)
    <2>1. UNCHANGED <<nonce, state, pending, sessions, materials>> /\ state = 1
          BY <1>3 DEF FailServerDhChecks, ReadableServerDh, host
    <2> QED
        BY <1>1, <2>1, NothingNew
  <1>4. CASE FailServerDhLate(m)
    <2>1. UNCHANGED <<nonce, state, pending, sessions, materials>> /\ state = 1
          BY <1>4 DEF FailServerDhLate, ReadableServerDh
    <2> QED
        BY <1>1, <2>1, NothingNew
  <1> QED
      BY <1>2, <1>3, <1>4

LEMMA AcceptResPqInv == ASSUME IInv, NEW m \in net, AcceptResPq(m) PROVE IInv'
  <1> USE DEF IInv, AcceptResPq, AcceptableResPq
  <1>1. \A b \in Bodies' : b \in Bodies \/ b = ReqDh(nonce, m.session)
        BY DEF Bodies
  <1>2. Honest(m) /\ m.session \in SessionIds /\ sessions[m.session].nonce = nonce
        BY DEF WellFormed, Bodies, Honest, OfSession
  <1>3. Honest(ReqDh(nonce, m.session))
        BY <1>2 DEF Honest, ReqDh, Types, OfSession, HonestDh, HonestExponent, HonestGen, Counters
  <1>4. WellFormed'
        BY <1>1, <1>3 DEF WellFormed, Honest, OfSession, HonestDh, HonestExponent, HonestGen
  <1>5. Counters' /\ Undecided'
        BY DEF Counters, SessionTypes, Undecided
  <1>6. FreshExponent' /\ OneExponentPerSession'
    <2>1. \A b \in Bodies' : b.type = "set_client_dh" => b \in Bodies
          BY <1>1 DEF ReqDh
    <2> QED
        BY <2>1 DEF FreshExponent, OneExponentPerSession, Bodies
  <1>7. (Awaiting /\ MaterialsInOrder /\ KeyAgreement /\ KeyLeavesOnce)'
        BY DEF Awaiting, MaterialsInOrder, KeyAgreement, KeyLeavesOnce
  <1> QED
      BY <1>4, <1>5, <1>6, <1>7

(* The exponent that is sent is the first of its handshake, and the key    *)
(* that stays in the object is the one it makes.                           *)
LEMMA AcceptServerDhInv == ASSUME IInv, NEW m \in net, AcceptServerDh(m) PROVE IInv'
  <1> USE DEF IInv, AcceptServerDh, ReadableServerDh
  <1> DEFINE new == SetClientDh(nonce, serverNonce, exponents + 1)
  <1>1. \A b \in Bodies' : b \in Bodies \/ b = new
        BY DEF Bodies
  <1>2. /\ m.session \in SessionIds /\ sessions[m.session].nonce = nonce
        /\ m.a = ExponentOf(serverNonce) /\ m.time = TimeOf(serverNonce)
        /\ m.session = serverNonce
        BY DEF WellFormed, Bodies, Honest, OfSession, HonestDh
  <1>3. sessions[serverNonce].answer = "none"
        BY <1>2 DEF Undecided
  <1>4. Honest(new)
        BY <1>2, <1>3 DEF Honest, SetClientDh, Types, OfSession, HonestDh, HonestExponent,
                          HonestGen, Counters
  <1>5. WellFormed'
    <2> HIDE DEF new
    <2> QED
        BY <1>1, <1>4 DEF WellFormed, Honest, OfSession, HonestDh, HonestExponent, HonestGen
  <1>6. Counters' /\ Undecided' /\ FreshExponent'
        BY DEF Counters, SessionTypes, Undecided, FreshExponent
  <1>7. OneExponentPerSession'
    <2>1. ASSUME NEW b \in Bodies, b.type = "set_client_dh" PROVE b.session # serverNonce
          BY <2>1, <1>2 DEF FreshExponent, WellFormed, Honest, OfSession
    <2>2. new.session = serverNonce
          BY DEF SetClientDh
    <2> HIDE DEF new
    <2> QED
        BY <1>1, <2>1, <2>2 DEF OneExponentPerSession, Bodies
  <1>8. Awaiting'
        BY <1>2 DEF Awaiting, SetClientDh
  <1>9. (MaterialsInOrder /\ KeyAgreement /\ KeyLeavesOnce)'
        BY DEF MaterialsInOrder, KeyAgreement, KeyLeavesOnce
  <1> QED
      BY <1>5, <1>6, <1>7, <1>8, <1>9

(* The hash in an answer that fits the key can only be the server's.       *)
LEMMA FinishInv == ASSUME IInv, NEW m \in net, Finish(m) PROVE IInv'
  <1> USE DEF IInv, Finish
  <1> DEFINE new == [nonce |-> nonce, key |-> authKey,
                     salt |-> <<nonce, serverNonce>>, time |-> serverTime]
  <1>1. \A b \in Bodies' : b \in Bodies \/ b = Nothing
        BY DEF Bodies
  <1>2. WellFormed'
    <2>1. Honest(Nothing)'
          BY DEF Honest, Nothing, Types, OfSession, HonestDh, HonestExponent, HonestGen
    <2> QED
        BY <1>1, <2>1 DEF WellFormed, Honest, OfSession, HonestDh, HonestExponent, HonestGen
  <1>3. Counters' /\ Undecided' /\ FreshExponent' /\ Awaiting'
        BY DEF Counters, SessionTypes, Undecided, FreshExponent, Awaiting
  <1>4. OneExponentPerSession'
    <2>1. \A b \in Bodies' : b.type = "set_client_dh" => b \in Bodies
          BY <1>1 DEF Nothing
    <2> QED
        BY <2>1 DEF OneExponentPerSession, Bodies
  <1>5. /\ serverNonce \in SessionIds /\ sessions[serverNonce].nonce = nonce
        /\ sessions[serverNonce].answer = "ok"
        /\ authKey = Key(ExponentOf(serverNonce), sessions[serverNonce].b)
        /\ serverTime = TimeOf(serverNonce)
    <2>1. Honest(m)
          BY DEF WellFormed, Bodies
    <2>2. authKey # Zero
          BY DEF Awaiting, Key, Zero
    <2> QED
        BY <2>1, <2>2 DEF Honest, OfSession, HonestGen, Awaiting
  <1>6. KeyAgreement'
    <2> SUFFICES ASSUME NEW k \in materials'
                 PROVE  \E s \in SessionIds :
                            /\ sessions[s].nonce = k.nonce /\ sessions[s].answer = "ok"
                            /\ k.key = Key(ExponentOf(s), sessions[s].b)
                            /\ k.salt = <<k.nonce, s>>
                            /\ k.time = TimeOf(s)
        BY DEF KeyAgreement
    <2>1. CASE k \in materials
          BY <2>1 DEF KeyAgreement
    <2>2. CASE k = new
          BY <2>2, <1>5
    <2> QED
        BY <2>1, <2>2
  <1>7. MaterialsInOrder'
        BY DEF MaterialsInOrder, Counters
  <1>8. KeyLeavesOnce'
    <2>1. materials' = materials \cup {new} /\ new.nonce = nonce /\ authKey' = Zero
          OBVIOUS
    <2>2. \A k \in materials : k.nonce # nonce
          BY DEF MaterialsInOrder
    <2> HIDE DEF new
    <2> QED
        BY <2>1, <2>2 DEF KeyLeavesOnce
  <1> QED
      BY <1>2, <1>3, <1>4, <1>6, <1>7, <1>8

-----------------------------------------------------------------------------
(* The server's steps.  A new session, or an answer within one.            *)
LEMMA ServerResPqInv == ASSUME IInv, NEW m \in net, ServerResPq(m) PROVE IInv'
  <1> USE DEF IInv
  <1>0. PICK s \in Nat : s = Len(sessions) + 1
        BY DEF Counters, SessionTypes
  <1> DEFINE added == [nonce |-> m.nonce, answer |-> "none", b |-> 0]
  <1>1. PICK usable \in BOOLEAN :
            /\ net' = net \cup {ResPq(m.nonce, s, usable)}
            /\ sessions' = Append(sessions, added)
        BY <1>0 DEF ServerResPq
  <1>2. m.type = "req_pq" /\ m.nonce \in 1 .. nonce /\ UNCHANGED <<object, host>>
        BY DEF ServerResPq, WellFormed, Bodies, Honest
  <1>3. /\ SessionTypes' /\ Len(sessions') = s /\ sessions'[s] = added
        /\ \A i \in SessionIds : sessions'[i] = sessions[i] /\ i \in SessionIds'
        BY <1>0, <1>1, <1>2 DEF SessionTypes, Counters
  <1>4. Counters'
        BY <1>2, <1>3 DEF Counters, object, host
  <1>5. Undecided'
    <2> SUFFICES ASSUME NEW i \in 1 .. s
                 PROVE  /\ sessions'[i].nonce \in 1 .. nonce
                        /\ sessions'[i].nonce = nonce /\ state < 2 => sessions'[i].answer = "none"
        BY <1>2, <1>3 DEF Undecided, object
    <2>1. CASE i = s
          BY <2>1, <1>2, <1>3
    <2>2. CASE i # s
      <3>1. i \in SessionIds
            BY <2>2, <1>0 DEF Counters, SessionTypes
      <3> QED
          BY <3>1, <1>3 DEF Undecided
    <2> QED
        BY <2>1, <2>2
  <1> DEFINE new == ResPq(m.nonce, s, usable)
  <1>6. /\ new.type = "res_pq" /\ new.nonce = m.nonce /\ new.session = s
        /\ net' = net \cup {new} /\ s \in SessionIds' /\ sessions'[s].nonce = m.nonce
        BY <1>0, <1>1, <1>3 DEF ResPq, Counters, SessionTypes
  <1>7. \A b \in Bodies : Honest(b)'
        BY <1>2, <1>3 DEF WellFormed, Honest, OfSession, HonestDh, HonestExponent, HonestGen,
                          object
  <1> HIDE DEF new, added
  <1>8. Honest(new)'
        BY <1>2, <1>3, <1>6 DEF Honest, Types, OfSession, HonestDh, HonestExponent, HonestGen,
                                object
  <1>9. \A i \in SessionIds : sessions[i].answer = "ok" =>
            i \in SessionIds' /\ sessions'[i] = sessions[i]
        BY <1>3
  <1>10. new.type # "set_client_dh"
         BY <1>6
  <1> QED
      BY <1>2, <1>4, <1>5, <1>6, <1>7, <1>8, <1>9, <1>10, OneHonestBody

LEMMA ServerDhParamsInv == ASSUME IInv, NEW m \in net, ServerDhParams(m) PROVE IInv'
  <1> USE DEF IInv
  <1>1. PICK intact \in BOOLEAN :
            net' = net \cup {ServerDh(m.nonce, m.session,
                                      IF intact THEN TimeOf(m.session) ELSE DamagedTime, intact)}
        BY DEF ServerDhParams
  <1> DEFINE new == ServerDh(m.nonce, m.session,
                             IF intact THEN TimeOf(m.session) ELSE DamagedTime, intact)
  <1>2. /\ m.type = "req_dh" /\ Honest(m) /\ UNCHANGED <<object, host, sessions>>
        BY DEF ServerDhParams, WellFormed, Bodies
  <1>3. Honest(new) /\ new.type # "set_client_dh"
    <2>1. /\ new.type = "server_dh" /\ new.nonce = m.nonce /\ new.session = m.session
          /\ new.a = ExponentOf(m.session) /\ new.intact = intact
          /\ new.time = IF intact THEN TimeOf(m.session) ELSE DamagedTime
          BY DEF ServerDh
    <2>2. m.session \in SessionIds /\ sessions[m.session].nonce = m.nonce
          BY <1>2 DEF Honest, OfSession
    <2>3. new.time \in Nat /\ (new.intact => new.time = TimeOf(new.session))
          BY <2>1, <2>2 DEF TimeOf, DamagedTime
    <2> HIDE DEF new
    <2> QED
        BY <1>2, <2>1, <2>2, <2>3
           DEF Honest, Types, OfSession, HonestDh, HonestExponent, HonestGen
  <1> HIDE DEF new
  <1>4. Honest(new)' /\ \A b \in Bodies : Honest(b)'
        BY <1>2, <1>3 DEF WellFormed, Honest, OfSession, HonestDh, HonestExponent, HonestGen,
                          object
  <1>5. Counters' /\ Undecided'
        BY <1>2 DEF Counters, SessionTypes, Undecided, object, host
  <1>6. net' = net \cup {new}
        BY <1>1 DEF new
  <1> QED
      BY <1>2, <1>3, <1>4, <1>5, <1>6, OneHonestBody

(* The body that decides a session is the only one with an exponent for    *)
(* it, so that what the server records is what every later answer hashes.  *)
LEMMA ServerDhGenInv == ASSUME IInv, NEW m \in net, ServerDhGen(m) PROVE IInv'
  <1> USE DEF IInv
  <1>0. PICK s \in SessionIds : s = m.session
        BY DEF ServerDhGen, WellFormed, Bodies, Honest, OfSession
  <1>1. PICK answer \in {"ok", "retry", "fail"}, intact \in BOOLEAN :
            /\ sessions[s].answer = "none" \/ sessions[s].answer = answer
            /\ net' = net \cup {DhGen(answer, m.nonce, s,
                                      IF intact THEN Key(ExponentOf(s), m.b) ELSE Zero)}
            /\ sessions' = IF sessions[s].answer = "none"
                           THEN [sessions EXCEPT ![s] = [nonce |-> m.nonce,
                                                         answer |-> answer, b |-> m.b]]
                           ELSE sessions
        BY <1>0 DEF ServerDhGen
  <1> DEFINE new == DhGen(answer, m.nonce, s,
                          IF intact THEN Key(ExponentOf(s), m.b) ELSE Zero)
  <1>2. /\ m.type = "set_client_dh" /\ Honest(m) /\ UNCHANGED <<object, host>>
        BY DEF ServerDhGen, WellFormed, Bodies
  <1>3. /\ s \in SessionIds /\ sessions[s].nonce = m.nonce /\ m.nonce \in 1 .. nonce
        /\ m.b \in Nat /\ (sessions[s].answer # "none" => sessions[s].b = m.b)
        BY <1>0, <1>2 DEF Honest, OfSession, HonestExponent
  <1>4. /\ SessionTypes' /\ Len(sessions') = Len(sessions)
        /\ sessions'[s].nonce = m.nonce /\ sessions'[s].answer = answer
        /\ sessions'[s].b = m.b
        /\ \A i \in SessionIds : i # s => sessions'[i] = sessions[i]
        /\ sessions[s].answer # "none" => sessions'[s] = sessions[s]
    <2> DEFINE Entry == [nonce : Nat, answer : {"none", "ok", "retry", "fail"}, b : Nat]
    <2>1. CASE sessions[s].answer = "none"
      <3> DEFINE decided == [nonce |-> m.nonce, answer |-> answer, b |-> m.b]
      <3>1. sessions \in Seq(Entry) /\ s \in 1 .. Len(sessions)
            BY <1>3 DEF SessionTypes, Counters
      <3>2. sessions[s] \in Entry /\ decided \in Entry
        <4>1. sessions[s] \in Entry
          <5> HIDE DEF Entry
          <5> QED
              BY <3>1, ElementOfSeq
        <4> QED
            BY <4>1, <1>3
      <3>3. sessions' = [sessions EXCEPT ![s] = decided]
            BY <2>1, <1>1
      <3> HIDE DEF Entry, decided
      <3>4. /\ sessions' \in Seq(Entry) /\ Len(sessions') = Len(sessions)
            /\ \A i \in 1 .. Len(sessions) : sessions'[i] = IF i = s THEN decided ELSE sessions[i]
            BY <3>1, <3>2, <3>3, ExceptSeq
      <3> QED
          BY <3>1, <3>4, <2>1 DEF SessionTypes, Entry, decided
    <2>2. CASE sessions[s].answer # "none"
          BY <2>2, <1>1, <1>3 DEF SessionTypes, Counters
    <2> QED
        BY <2>1, <2>2
  <1>5. Counters'
        BY <1>2, <1>4 DEF Counters, object, host
  <1>6. m.nonce = nonce => state >= 2
        BY <1>2 DEF FreshExponent, Bodies, Counters
  <1>7. Undecided'
    <2> SUFFICES ASSUME NEW i \in SessionIds
                 PROVE  /\ sessions'[i].nonce \in 1 .. nonce
                        /\ sessions'[i].nonce = nonce /\ state < 2 => sessions'[i].answer = "none"
        BY <1>2, <1>4 DEF Undecided, object
    <2>1. CASE i = s
          BY <2>1, <1>3, <1>4, <1>6 DEF Counters
    <2>2. CASE i # s
          BY <2>2, <1>4 DEF Undecided
    <2> QED
        BY <2>1, <2>2
  <1>8. Honest(new)' /\ new.type # "set_client_dh"
        BY <1>2, <1>3, <1>4 DEF Honest, DhGen, Types, OfSession, HonestDh, HonestExponent,
                                HonestGen, object
  <1>9. ASSUME NEW b \in Bodies PROVE Honest(b)'
    <2>1. Honest(b) /\ nonce' = nonce
          BY <1>2 DEF WellFormed, object
    <2>2. OfSession(b)'
          BY <2>1, <1>3, <1>4 DEF Honest, OfSession
    <2>3. HonestExponent(b)'
      <3> SUFFICES ASSUME b.type = "set_client_dh", sessions'[b.session].answer # "none"
                   PROVE  sessions'[b.session].b = b.b
          BY <2>1 DEF Honest, HonestExponent
      <3>1. b.session \in SessionIds
            BY <2>1 DEF Honest, OfSession, Types
      <3>2. CASE b.session = s
        <4>1. b = m
              BY <3>2, <1>0, <1>2 DEF OneExponentPerSession, Bodies
        <4>2. sessions'[b.session].b = m.b
              BY <3>2, <1>4
        <4> QED
            BY <4>1, <4>2
      <3>3. CASE b.session # s
            BY <3>1, <3>3, <2>1, <1>4 DEF Honest, HonestExponent
      <3> QED
          BY <3>2, <3>3
    <2>4. HonestGen(b)'
          BY <2>1, <1>4 DEF Honest, OfSession, HonestGen
    <2> QED
        BY <2>1, <2>2, <2>3, <2>4 DEF Honest, HonestDh
  <1>10. \A i \in SessionIds : sessions[i].answer = "ok" =>
            i \in SessionIds' /\ sessions'[i] = sessions[i]
         BY <1>4
  <1>11. net' = net \cup {new}
         BY <1>1
  <1> HIDE DEF new
  <1> QED
      BY <1>2, <1>5, <1>7, <1>8, <1>9, <1>10, <1>11, OneHonestBody

-----------------------------------------------------------------------------
(* Every step keeps the inductive invariant.                               *)
LEMMA NextInv == IInv /\ [Next]_vars => IInv'
  <1> SUFFICES ASSUME IInv, [Next]_vars PROVE IInv'
      OBVIOUS
  <1>1. CASE StartOver \/ Transmit \/ ConnectionLost
        BY <1>1, StartOverInv, TransmitInv, ConnectionLostInv
  <1>2. CASE ClientAccepts
        BY <1>2, AcceptResPqInv, AcceptServerDhInv, FinishInv DEF ClientAccepts
  <1>3. CASE ClientFails
        BY <1>3, FailInv DEF ClientFails
  <1>4. CASE ServerAnswers
        BY <1>4, ServerResPqInv, ServerDhParamsInv, ServerDhGenInv DEF ServerAnswers
  <1>5. CASE UNCHANGED vars
    <2>1. Bodies' \subseteq Bodies /\ exponents' \in Nat
          BY <1>5 DEF vars, host, Bodies, IInv, Counters
    <2> QED
        BY <1>5, <2>1, NothingNew DEF vars, object, host
  <1> QED
      BY <1>1, <1>2, <1>3, <1>4, <1>5 DEF Next

LEMMA Invariance == Spec => []IInv
  <1> QED
      BY InitInv, NextInv, PTL DEF Spec

-----------------------------------------------------------------------------
(* The types, on top of the inductive invariant.                           *)
TypedInv == IInv /\ TypeOK

LEMMA ClientTypes ==
    ASSUME TypedInv, NEW m \in net,
           \/ AcceptResPq(m) \/ AcceptServerDh(m) \/ Finish(m)
           \/ FailResPq(m) \/ FailServerDhChecks(m) \/ FailServerDhLate(m)
    PROVE  TypeOK'
  <1> USE BoundsAssumption DEF TypedInv, TypeOK
  <1>1. Honest(m) /\ Len(sessions) \in Nat
        BY DEF IInv, WellFormed, Bodies
  <1>2. CASE AcceptResPq(m)
        BY <1>1, <1>2 DEF AcceptResPq, AcceptableResPq, Honest, OfSession, NoFault, ReqDh
  <1>3. CASE FailResPq(m)
    <2>1. faults' \in 0 .. MaxFaults
          BY <1>3 DEF FailResPq, NoFault, Fault
    <2>2. m.session \in 0 .. Len(sessions)
          BY <1>1, <1>3 DEF FailResPq, AcceptableResPq, Honest, OfSession
    <2> QED
        BY <2>1, <2>2, <1>3 DEF FailResPq, host
  <1>4. ASSUME m.type = "server_dh"
        PROVE  m.a \in 0 .. Len(sessions) /\ m.time \in Nat
        BY <1>1, <1>4 DEF Honest, OfSession, HonestDh, ExponentOf
  <1>5. CASE AcceptServerDh(m)
        BY <1>1, <1>4, <1>5 DEF AcceptServerDh, ReadableServerDh, NoFault, SetClientDh, Secrets, Key
  <1>6. CASE FailServerDhChecks(m)
        BY <1>1, <1>4, <1>6 DEF FailServerDhChecks, ReadableServerDh, NoFault, host
  <1>7. CASE FailServerDhLate(m)
    <2>1. authKey' \in Secrets
          BY <1>4, <1>7 DEF FailServerDhLate, ReadableServerDh, Secrets, Key, Exponent
    <2> QED
        BY <1>1, <1>4, <1>7, <2>1 DEF FailServerDhLate, ReadableServerDh, Fault
  <1>8. CASE Finish(m)
    <2>1. authKey' \in Secrets
          BY <1>8 DEF Finish, Secrets, Zero
    <2>2. materials' \subseteq [nonce : Nonces, key : Secrets, time : Nat, salt : Nonces \X Nat]
          BY <1>8 DEF Finish
    <2> QED
        BY <1>8, <2>1, <2>2 DEF Finish, Nothing, NoFault
  <1> QED
      BY <1>2, <1>3, <1>5, <1>6, <1>7, <1>8

LEMMA ServerTypes ==
    ASSUME TypedInv, IInv', NEW m \in net,
           ServerResPq(m) \/ ServerDhParams(m) \/ ServerDhGen(m)
    PROVE  TypeOK'
  <1> USE BoundsAssumption DEF TypedInv, TypeOK
  <1>1. SessionTypes' /\ UNCHANGED <<object, host>>
        BY DEF IInv, Counters, ServerResPq, ServerDhParams, ServerDhGen
  <1>2. faults' \in 0 .. MaxFaults
        BY DEF ServerResPq, ServerDhParams, ServerDhGen, Fault, NoFault
  <1>3. Len(sessions') >= Len(sessions) /\ Len(sessions') \in Nat
    <2>1. CASE ServerResPq(m)
          BY <2>1 DEF ServerResPq
    <2>2. CASE ServerDhParams(m)
          BY <2>2 DEF ServerDhParams
    <2>3. CASE ServerDhGen(m)
          BY <2>3 DEF ServerDhGen
    <2> QED
        BY <2>1, <2>2, <2>3
  <1> QED
      BY <1>1, <1>2, <1>3 DEF SessionTypes, object, host

LEMMA NextTypes == TypedInv /\ [Next]_vars => TypedInv'
  <1> SUFFICES ASSUME TypedInv, [Next]_vars PROVE TypedInv'
      OBVIOUS
  <1>1. IInv'
        BY NextInv DEF TypedInv
  <1>2. CASE StartOver
        BY <1>1, <1>2, BoundsAssumption
           DEF StartOver, TypedInv, TypeOK, Nonces, Fault, Secrets, Zero, ReqPq
  <1>3. CASE Transmit \/ ConnectionLost
        BY <1>1, <1>3, BoundsAssumption
           DEF Transmit, ConnectionLost, TypedInv, TypeOK, object, host, Fault
  <1>4. CASE ClientAccepts \/ ClientFails
        BY <1>1, <1>4, ClientTypes DEF ClientAccepts, ClientFails, TypedInv
  <1>5. CASE ServerAnswers
        BY <1>1, <1>5, ServerTypes DEF ServerAnswers, TypedInv
  <1>6. CASE UNCHANGED vars
        BY <1>1, <1>6 DEF vars, object, host, TypedInv, TypeOK
  <1> QED
      BY <1>2, <1>3, <1>4, <1>5, <1>6 DEF Next

LEMMA InitTypes == Init => TypedInv
  <1> QED
      BY InitInv, BoundsAssumption DEF Init, TypedInv, TypeOK, Nonces, Secrets, Zero, ReqPq

(* The variables of the object, the host and the server keep their types.  *)
THEOREM TypeCorrect == Spec => []TypeOK
  <1>1. TypedInv => TypeOK
        BY DEF TypedInv
  <1> QED
      BY InitTypes, NextTypes, <1>1, PTL DEF Spec

-----------------------------------------------------------------------------
(* What finish returned is what the server registered for that session:    *)
(* its key, its salt and its time.                                         *)
THEOREM AgreedKey == Spec => []KeyAgreement
  <1>1. IInv => KeyAgreement
        BY DEF IInv
  <1> QED
      BY <1>1, Invariance, PTL

(* An object that awaits the last answer holds the key of the very body it *)
(* sent, and no other attempt's.                                           *)
THEOREM OwnKeyAwaited == Spec => []AwaitsItsOwnKey
  <1>1. IInv => AwaitsItsOwnKey
        BY DEF IInv, Awaiting, AwaitsItsOwnKey, SetClientDh
  <1> QED
      BY <1>1, Invariance, PTL

(* A handshake's material comes out once, and the key is gone with it.     *)
THEOREM OneMaterial == Spec => []KeyLeavesOnce
  <1>1. IInv => KeyLeavesOnce
        BY DEF IInv
  <1> QED
      BY <1>1, Invariance, PTL

(* No session is ever offered two exponents.                               *)
THEOREM OneExponent == Spec => []OneExponentPerSession
  <1>1. IInv => OneExponentPerSession
        BY DEF IInv
  <1> QED
      BY <1>1, Invariance, PTL
===============================================================================
