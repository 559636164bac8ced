------------------------------- MODULE LoginProbe -------------------------------
(***************************************************************************)
(* tools/tg-test-login: three plain exchanges make an authorization key,   *)
(* then three encrypted calls, sendCode, signIn and getMe, log in.  Each   *)
(* call reads frames until one holds an rpc_result, at most CallFrames of  *)
(* them, and takes that result for its answer: the request's identifier is *)
(* not compared.  Any error ends the program.  The server answers a        *)
(* request once, may resend an answer (the probe acknowledges nothing),    *)
(* and sends frames of its own in between.                                 *)
(***************************************************************************)
EXTENDS Integers, Sequences

CONSTANTS
    CallFrames,     \* frames encrypted_call reads before it gives up (8)
    MaxEntries,     \* entries of a container rpc_result_body searches (16)
    MaxExtra,       \* bound: frames the server sends that are no first answer
    MaxResends      \* bound: resent answers among them

ASSUME LoginAssumption ==
    /\ CallFrames \in Nat \ {0} /\ MaxEntries \in Nat
    /\ MaxExtra \in Nat /\ MaxResends \in Nat

VARIABLES
    pc,             \* "start", "send", "wait", "ask", "done", "failed"
    step,           \* the exchange or call run() is at
    reads,          \* frames the current call has read
    loggedIn,       \* "Login successful" was printed
    profile,        \* the constructor printed for getMe, or "none"
    taken,          \* history: the result each call took
    outbox, inbox,  \* the connection: steps requested, frames to read
    answers,        \* the server: its answer to each step, or "none"
    extra, resends  \* bounded counters of the server's frames

client == <<pc, step, reads, loggedIn, profile, taken>>
server == <<answers, extra, resends>>
vars == <<client, outbox, inbox, server>>

Exchanges == {"resPQ", "serverDH", "dhGen"}
Steps == <<"resPQ", "serverDH", "dhGen", "sendCode", "signIn", "getMe">>
Calls == {4, 5, 6}
Plain(s) == Steps[s] \in Exchanges

(* What the server may answer to each call: parse_auth_response tells      *)
(* these apart ("sentCodeLong": a code hash of more than 128 bytes).       *)
Outcomes(s) ==
    CASE Plain(s) -> {"plain"}
      [] Steps[s] = "sendCode" -> {"sentCode", "sentCodeLong", "rpcError", "other"}
      [] Steps[s] = "signIn" -> {"authorization", "rpcError", "other"}
      [] Steps[s] = "getMe" -> {"userFull", "rpcError"}

Result(s, what) == [ctor |-> "rpc_result", call |-> s, what |-> what]
Service == [ctor |-> "other"]
Container(entries) == [ctor |-> "container", entries |-> entries]

Encrypted(body) == [kind |-> "encrypted", body |-> body]
PlainFrame == [kind |-> "plain"]
RefusedFrame == [kind |-> "refused"]    \* bad length, transport error, forged

-----------------------------------------------------------------------------
(* rpc_result_body: the first result in a message, in a set of at most     *)
(* one.  An entry without one is passed over, so the entry that answers is *)
(* the one with no answer before it; a container with too many entries is  *)
(* refused unread.  The function calls itself for an entry; no message     *)
(* here is more than a container in a container.                           *)
Search(m, InEntry(_)) ==
    CASE m.ctor = "rpc_result" -> {m}
      [] m.ctor = "container" ->
            UNION {InEntry(m.entries[i]) :
                   i \in {k \in DOMAIN m.entries :
                            /\ Len(m.entries) <= MaxEntries
                            /\ \A j \in 1 .. k - 1 : InEntry(m.entries[j]) = {}}}
      [] m.ctor = "other" -> {}

Inmost(m) == Search(m, LAMBDA e : {})
Inner(m) == Search(m, Inmost)
RpcResultBody(m) == Search(m, Inner)

HasResult(f) == f.kind = "encrypted" /\ RpcResultBody(f.body) # {}

-----------------------------------------------------------------------------
Init ==
    /\ pc = "start" /\ step = 1 /\ reads = 0
    /\ loggedIn = FALSE /\ profile = "none"
    /\ taken = [s \in Calls |-> <<>>]
    /\ outbox = <<>> /\ inbox = <<>>
    /\ answers = [s \in DOMAIN Steps |-> "none"]
    /\ extra = 0 /\ resends = 0

Fail == pc' = "failed" /\ UNCHANGED <<step, reads, loggedIn, profile, taken>>

(* The prompts before the connection and the one for the login code: input *)
(* that ends or is empty is an error, as is a connection that fails.       *)
Ask ==
    /\ pc \in {"start", "ask"}
    /\ pc' \in {"send", "failed"}
    /\ UNCHANGED <<step, reads, loggedIn, profile, taken, outbox, inbox, server>>

(* send_plain, or the first half of encrypted_call.                        *)
Send ==
    /\ pc = "send"
    /\ pc' = "wait" /\ reads' = 0
    /\ outbox' = Append(outbox, step)
    /\ UNCHANGED <<step, loggedIn, profile, taken, inbox, server>>

SendFails == pc = "send" /\ Fail /\ UNCHANGED <<outbox, inbox, server>>

Read ==
    /\ pc = "wait" /\ inbox # <<>>
    /\ inbox' = Tail(inbox)
    /\ UNCHANGED <<outbox, server>>

(* Mutant: the socket has no read timeout (set_read_timeout failed and its *)
(* error is dropped).                                                      *)
TimedOutNever == FALSE

(* receive_frame: nothing came within the read timeout.                    *)
TimedOut ==
    /\ pc = "wait" /\ inbox = <<>> /\ Fail
    /\ UNCHANGED <<outbox, inbox, server>>

(* A plain answer the handshake goes on with, or refuses.                  *)
ReadPlain ==
    /\ Read /\ Plain(step) /\ Head(inbox) = PlainFrame
    /\ \/ Fail
       \/ /\ pc' = "send" /\ step' = step + 1
          /\ UNCHANGED <<reads, loggedIn, profile, taken>>

(* The frame is not what the step reads: plain_body, open and              *)
(* parse_external fail, and nothing is skipped.                            *)
ReadForeign ==
    /\ Read
    /\ Head(inbox).kind # IF Plain(step) THEN "plain" ELSE "encrypted"
    /\ Fail

(* Mutant: the loop stops one frame early.                                 *)
ReadOtherShort ==
    /\ Read /\ ~Plain(step)
    /\ Head(inbox).kind = "encrypted" /\ ~HasResult(Head(inbox))
    /\ reads' = reads + 1
    /\ pc' = IF reads' >= CallFrames - 1 THEN "failed" ELSE "wait"
    /\ UNCHANGED <<step, loggedIn, profile, taken>>

(* Mutant: a call that read its frames sends its request once more.        *)
ReadOtherRetrying ==
    /\ Read /\ ~Plain(step)
    /\ Head(inbox).kind = "encrypted" /\ ~HasResult(Head(inbox))
    /\ reads' = reads + 1
    /\ pc' = IF reads' = CallFrames THEN "send" ELSE "wait"
    /\ UNCHANGED <<step, loggedIn, profile, taken>>

(* encrypted_call's loop: a frame without a result, the last one or not.   *)
ReadOther ==
    /\ Read /\ ~Plain(step)
    /\ Head(inbox).kind = "encrypted" /\ ~HasResult(Head(inbox))
    /\ reads' = reads + 1
    /\ pc' = IF reads' = CallFrames THEN "failed" ELSE "wait"
    /\ UNCHANGED <<step, loggedIn, profile, taken>>

(* The first result ends the call, whichever request it answers.           *)
Take(r) ==
    /\ Read /\ ~Plain(step) /\ HasResult(Head(inbox))
    /\ r \in RpcResultBody(Head(inbox).body)
    /\ taken' = [taken EXCEPT ![step] = <<r>>]
    /\ UNCHANGED reads

SentCode(r) ==
    /\ Steps[step] = "sendCode" /\ Take(r)
    /\ IF r.what = "sentCode"
       THEN pc' = "ask" /\ step' = step + 1
       ELSE pc' = "failed" /\ UNCHANGED step
    /\ UNCHANGED <<loggedIn, profile>>

(* Mutant: anything that is not an error counts as a login.                *)
SignedInUnlessError(r) ==
    /\ Steps[step] = "signIn" /\ Take(r)
    /\ IF r.what # "rpcError"
       THEN pc' = "send" /\ step' = step + 1 /\ loggedIn' = TRUE
       ELSE pc' = "failed" /\ UNCHANGED <<step, loggedIn>>
    /\ UNCHANGED profile

SignedIn(r) ==
    /\ Steps[step] = "signIn" /\ Take(r)
    /\ IF r.what = "authorization"
       THEN pc' = "send" /\ step' = step + 1 /\ loggedIn' = TRUE
       ELSE pc' = "failed" /\ UNCHANGED <<step, loggedIn>>
    /\ UNCHANGED profile

(* Any constructor is printed, an rpc_error's too.                         *)
GotMe(r) ==
    /\ Steps[step] = "getMe" /\ Take(r)
    /\ pc' = "done" /\ profile' = r.what
    /\ UNCHANGED <<step, loggedIn>>

TakeResult ==
    /\ inbox # <<>> /\ HasResult(Head(inbox))
    /\ \E r \in RpcResultBody(Head(inbox).body) :
          SentCode(r) \/ SignedIn(r) \/ GotMe(r)

-----------------------------------------------------------------------------
(* How the server packs an answer: alone, behind or before a message of    *)
(* its own, in a container in a container, or behind an answer it resends. *)
Packings(r) ==
    {r, Container(<<Service, r>>), Container(<<Container(<<r>>), Service>>)}

Behind(e, r) == Container(<<e, r>>)

Earlier == {Result(s, answers[s]) : s \in {c \in Calls : answers[c] # "none"}}

Packed(r) ==
    \/ /\ \E body \in Packings(r) : inbox' = Append(inbox, Encrypted(body))
       /\ UNCHANGED resends
    \/ /\ resends < MaxResends /\ resends' = resends + 1
       /\ \E e \in Earlier : inbox' = Append(inbox, Encrypted(Behind(e, r)))

ServerAnswer ==
    /\ outbox # <<>>
    /\ outbox' = Tail(outbox)
    /\ LET s == Head(outbox)
       IN  \E what \in Outcomes(s) :
             /\ answers' = [answers EXCEPT ![s] = what]
             /\ IF Plain(s)
                THEN inbox' = Append(inbox, PlainFrame) /\ UNCHANGED resends
                ELSE Packed(Result(s, what))
    /\ UNCHANGED <<client, extra>>

Keyed == answers[3] # "none"

Unasked(f) ==
    /\ extra < MaxExtra /\ extra' = extra + 1
    /\ inbox' = Append(inbox, f)
    /\ UNCHANGED <<client, outbox, answers>>

(* Acknowledgements, new_session_created, updates, containers of these.    *)
ServiceBodies ==
    {Service, Container(<<>>), Container([i \in 1 .. MaxEntries + 1 |-> Service])}

ServerService ==
    /\ Keyed /\ UNCHANGED resends
    /\ \E body \in ServiceBodies : Unasked(Encrypted(body))

ServerResend ==
    /\ resends < MaxResends /\ resends' = resends + 1
    /\ \E r \in Earlier : Unasked(Encrypted(r))

(* A transport error, a frame that is too long, one nobody sealed, a plain *)
(* frame after the handshake.                                              *)
BadFrame ==
    /\ UNCHANGED resends
    /\ Unasked(RefusedFrame) \/ (Keyed /\ Unasked(PlainFrame))

-----------------------------------------------------------------------------
Client ==
    \/ Send \/ SendFails \/ ReadPlain \/ ReadForeign \/ ReadOther \/ TakeResult
    \/ TimedOut
Server == ServerAnswer \/ ServerService \/ ServerResend \/ BadFrame

Next == Ask \/ Client \/ Server

Spec == Init /\ [][Next]_vars

(* The program has one thread that goes on whenever it can; the user       *)
(* answers a prompt or ends the input.  The server owes nothing.           *)
Fairness == WF_vars(Ask) /\ WF_vars(Client)

FairSpec == Spec /\ Fairness

-----------------------------------------------------------------------------
(* What the probe prints happened: a login it reports is one the server    *)
(* granted, and the profile it reports is an answer to getMe, although     *)
(* answers are not matched with requests and may come again.               *)
PrintsWhatHappened ==
    /\ loggedIn => answers[5] = "authorization"
    /\ profile = "userFull" => answers[6] = "userFull"

(* Without a resent answer every call takes the answer to its own request, *)
(* though it compares no identifier: nothing of an earlier call is left    *)
(* unread when a call begins that could be taken for its answer.           *)
OwnAnswerUnlessResent ==
    resends = 0 =>
        \A s \in Calls : taken[s] # <<>> => taken[s][1].call = s

(* An answer within the frames a call may still read, with nothing but     *)
(* readable frames before it, is taken: the frames an earlier call left    *)
(* unread count, but those it read do not.                                 *)
WithinReach(s) ==
    /\ pc = "wait" /\ step = s
    /\ \E j \in DOMAIN inbox :
         /\ j <= CallFrames - reads /\ HasResult(inbox[j])
         /\ \A i \in 1 .. j : inbox[i].kind = "encrypted"

AnswerInReachIsTaken ==
    \A s \in Calls : WithinReach(s) ~> taken[s] # <<>>

(* Every run of the probe ends, whatever the server sends or withholds.    *)
Ends == <>(pc \in {"done", "failed"})
===============================================================================
