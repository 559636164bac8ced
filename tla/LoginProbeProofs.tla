--------------------------- MODULE LoginProbeProofs ---------------------------
(***************************************************************************)
(* The login probe, for every number of frames a call reads, every limit   *)
(* on containers, and any number of resent answers and frames of the       *)
(* server's own.                                                           *)
(*                                                                         *)
(* What the probe prints depends on two things no line of it checks.  A    *)
(* result in the connection, wherever it stands and however it is packed,  *)
(* is what the server answered to the call it names (ResultsKnown).  And   *)
(* no step is reached before the one behind it was answered: nothing else  *)
(* that may arrive lets the probe go on (Later, Awaited, PlainArrives).    *)
(***************************************************************************)
EXTENDS LoginProbe, SequenceTheorems, TLAPS

(* What may be in the connection.                                          *)
AllSteps == 1 .. 6
Whats == {"none", "plain", "sentCode", "sentCodeLong", "rpcError", "other",
          "authorization", "userFull"}
Results == UNION {{Result(s, what) : what \in Outcomes(s)} : s \in Calls}
Bodies ==
    ServiceBodies \cup (UNION {Packings(r) : r \in Results})
        \cup {Behind(e, r) : e \in Results, r \in Results}
Frames == {PlainFrame, RefusedFrame} \cup {Encrypted(b) : b \in Bodies}

(* What a call may take from a frame.                                      *)
Found(f) == IF f.kind = "encrypted" THEN RpcResultBody(f.body) ELSE {}

Known(queue, all) == \A i \in DOMAIN queue : Found(queue[i]) \subseteq all
NoResult(queue) == \A i \in DOMAIN queue : Found(queue[i]) = {}
OneResult(queue) ==
    \A i, j \in DOMAIN queue :
        Found(queue[i]) # {} /\ Found(queue[j]) # {} => i = j
ResultsOf(queue, s) ==
    \A i \in DOMAIN queue : \A r \in Found(queue[i]) : r.call = s
NoPlain(queue) == \A i \in DOMAIN queue : queue[i] # PlainFrame
OnePlain(queue) ==
    \A i, j \in DOMAIN queue :
        queue[i] = PlainFrame /\ queue[j] = PlainFrame => i = j

-----------------------------------------------------------------------------
Types ==
    /\ pc \in {"start", "send", "wait", "ask", "done", "failed"}
    /\ step \in AllSteps
    /\ taken \in [Calls -> Seq(Results)]
    /\ inbox \in Seq(Frames)
    /\ answers \in [AllSteps -> Whats]
    /\ \A s \in AllSteps : answers[s] \in Outcomes(s) \cup {"none"}
    /\ resends \in Nat

(* No step is answered before it is reached, nor before it is requested.   *)
Later == \A s \in AllSteps : s > step => answers[s] = "none"
Unsent == pc \in {"start", "send", "ask"} => answers[step] = "none"
Awaited ==
    \/ outbox = <<>>
    \/ /\ outbox = <<step>> /\ answers[step] = "none"
       /\ pc \in {"wait", "failed", "done"}

(* A plain exchange goes on with its own answer.                           *)
PlainArrives ==
    /\ step <= 3 /\ answers[step] = "none" => NoPlain(inbox)
    /\ step <= 2 => OnePlain(inbox)

ResultsKnown == Known(inbox, Earlier)

(* Unless an answer was resent: one result at most is on the way, and it   *)
(* is for the call that waits.                                             *)
OnlyOwn ==
    resends = 0 /\ pc \notin {"failed", "done"} =>
        OneResult(inbox) /\ ResultsOf(inbox, step)

IInv ==
    /\ Types /\ Later /\ Unsent /\ Awaited /\ PlainArrives
    /\ ResultsKnown /\ OnlyOwn
    /\ PrintsWhatHappened /\ OwnAnswerUnlessResent

-----------------------------------------------------------------------------
(* The steps and what may answer them.                                     *)
LEMMA StepNames ==
    /\ DOMAIN Steps = AllSteps /\ Calls \subseteq AllSteps
    /\ \A s \in AllSteps : Plain(s) <=> s <= 3
    /\ \A s \in AllSteps : s \in Calls <=> s > 3
    /\ \A s \in AllSteps : /\ Steps[s] = "sendCode" <=> s = 4
                           /\ Steps[s] = "signIn" <=> s = 5
                           /\ Steps[s] = "getMe" <=> s = 6
<1>1. /\ Steps[1] = "resPQ" /\ Steps[2] = "serverDH" /\ Steps[3] = "dhGen"
      /\ Steps[4] = "sendCode" /\ Steps[5] = "signIn" /\ Steps[6] = "getMe"
      /\ DOMAIN Steps = 1 .. 6
  BY DEF Steps
<1>2. \A s \in AllSteps : s = 1 \/ s = 2 \/ s = 3 \/ s = 4 \/ s = 5 \/ s = 6
  BY SMT DEF AllSteps
<1>3. \A s \in AllSteps : Plain(s) <=> s <= 3
  BY <1>1, <1>2, SMT DEF Plain, Exchanges
<1> QED
  BY <1>1, <1>2, <1>3, SMT DEF AllSteps, Calls

LEMMA OutcomeNames ==
    ASSUME NEW s \in AllSteps
    PROVE  /\ Outcomes(s) \subseteq Whats \ {"none"}
           /\ "authorization" \in Outcomes(s) => s = 5
           /\ "userFull" \in Outcomes(s) => s = 6
           /\ "sentCode" \in Outcomes(s) => s = 4
<1>1. s = 1 \/ s = 2 \/ s = 3 \/ s = 4 \/ s = 5 \/ s = 6
  BY SMT DEF AllSteps
<1>2. CASE s <= 3
  BY <1>1, <1>2, StepNames, SMT DEF Outcomes, Whats
<1>3. CASE s = 4
  BY <1>3, StepNames, SMT DEF Outcomes, Whats
<1>4. CASE s = 5
  BY <1>4, StepNames, SMT DEF Outcomes, Whats
<1>5. CASE s = 6
  BY <1>5, StepNames, SMT DEF Outcomes, Whats
<1> QED
  BY <1>1, <1>2, <1>3, <1>4, <1>5, SMT

(* The search finds nothing but results that are there.                    *)
LEMMA SearchResult ==
    ASSUME NEW m, m.ctor = "rpc_result"
    PROVE  Inmost(m) = {m} /\ Inner(m) = {m} /\ RpcResultBody(m) = {m}
<1> QED
  BY DEF Inmost, Inner, RpcResultBody, Search

LEMMA SearchOther ==
    Inmost(Service) = {} /\ Inner(Service) = {} /\ RpcResultBody(Service) = {}
<1>1. Service.ctor = "other"
  BY DEF Service
<1> QED
  BY <1>1 DEF Inmost, Inner, RpcResultBody, Search

LEMMA SearchContainer ==
    ASSUME NEW m, m.ctor = "container", NEW found,
           \A i \in DOMAIN m.entries :
              Inmost(m.entries[i]) \subseteq found /\ Inner(m.entries[i]) \subseteq found
    PROVE  Inner(m) \subseteq found /\ RpcResultBody(m) \subseteq found
<1>1. Inner(m) = UNION {Inmost(m.entries[i]) :
                           i \in {k \in DOMAIN m.entries :
                                    /\ Len(m.entries) <= MaxEntries
                                    /\ \A j \in 1 .. k - 1 : Inmost(m.entries[j]) = {}}}
  BY DEF Inner, Search
<1>2. RpcResultBody(m)
        = UNION {Inner(m.entries[i]) :
                    i \in {k \in DOMAIN m.entries :
                             /\ Len(m.entries) <= MaxEntries
                             /\ \A j \in 1 .. k - 1 : Inner(m.entries[j]) = {}}}
  BY DEF RpcResultBody, Search
<1>3. Inner(m) \subseteq found
  BY <1>1, Zenon
<1>4. RpcResultBody(m) \subseteq found
  BY <1>2, Zenon
<1> QED
  BY <1>3, <1>4

LEMMA FoundInPackings ==
    ASSUME NEW r \in Results, NEW body \in Packings(r)
    PROVE  RpcResultBody(body) \subseteq {r}
<1>1. r.ctor = "rpc_result"
  BY DEF Results, Result
<1>2. Inmost(r) = {r} /\ Inner(r) = {r} /\ RpcResultBody(r) = {r}
  BY <1>1, SearchResult
<1>3. CASE body = r
  BY <1>2, <1>3
<1>4. CASE body = Container(<<Service, r>>)
  <2>1. body.ctor = "container" /\ body.entries = <<Service, r>>
    BY <1>4 DEF Container
  <2>2. \A i \in DOMAIN body.entries :
           Inmost(body.entries[i]) \subseteq {r} /\ Inner(body.entries[i]) \subseteq {r}
    <3>1. \A i \in DOMAIN body.entries : body.entries[i] \in {Service, r}
      BY <2>1
    <3> QED
      BY <1>2, <3>1, SearchOther
  <2> QED
    BY <2>1, <2>2, SearchContainer
<1>5. CASE body = Container(<<Container(<<r>>), Service>>)
  <2> DEFINE inside == Container(<<r>>)
  <2>1. inside.ctor = "container" /\ inside.entries = <<r>>
    BY DEF Container
  <2>2. Inmost(inside) = {}
    <3>1. Inmost(inside) = UNION {{} : i \in {k \in DOMAIN inside.entries :
                                    /\ Len(inside.entries) <= MaxEntries
                                    /\ \A j \in 1 .. k - 1 : {} = {}}}
      BY <2>1 DEF Inmost, Search
    <3> QED
      BY <3>1, Zenon
  <2>3. Inner(inside) \subseteq {r}
    <3>1. \A i \in DOMAIN inside.entries : inside.entries[i] = r
      BY <2>1
    <3>2. \A i \in DOMAIN inside.entries :
             /\ Inmost(inside.entries[i]) \subseteq {r}
             /\ Inner(inside.entries[i]) \subseteq {r}
      BY <1>2, <3>1
    <3> QED
      BY <2>1, <3>2, SearchContainer
  <2>4. body.ctor = "container" /\ body.entries = <<inside, Service>>
    BY <1>5 DEF Container
  <2> HIDE DEF inside
  <2>5. \A i \in DOMAIN body.entries :
           Inmost(body.entries[i]) \subseteq {r} /\ Inner(body.entries[i]) \subseteq {r}
    <3>1. \A i \in DOMAIN body.entries : body.entries[i] \in {inside, Service}
      BY <2>4
    <3> QED
      BY <2>2, <2>3, <3>1, SearchOther
  <2> QED
    BY <2>4, <2>5, SearchContainer
<1> QED
  BY <1>3, <1>4, <1>5 DEF Packings

LEMMA FoundBehind ==
    ASSUME NEW e \in Results, NEW r \in Results
    PROVE  RpcResultBody(Behind(e, r)) \subseteq {e, r}
<1>1. e.ctor = "rpc_result" /\ r.ctor = "rpc_result"
  BY DEF Results, Result
<1>2. Inmost(r) = {r} /\ Inner(r) = {r} /\ Inmost(e) = {e} /\ Inner(e) = {e}
  BY <1>1, SearchResult
<1> DEFINE body == Behind(e, r)
<1>3. body.ctor = "container" /\ body.entries = <<e, r>>
  BY DEF Behind, Container
<1> HIDE DEF body
<1>4. \A i \in DOMAIN body.entries : body.entries[i] \in {e, r}
  BY <1>3
<1>5. \A i \in DOMAIN body.entries :
         /\ Inmost(body.entries[i]) \subseteq {e, r}
         /\ Inner(body.entries[i]) \subseteq {e, r}
  BY <1>2, <1>4
<1> QED
  BY <1>3, <1>5, SearchContainer DEF body

LEMMA FoundInService ==
    ASSUME NEW body \in ServiceBodies
    PROVE  RpcResultBody(body) = {}
<1>1. CASE body = Service
  BY <1>1, SearchOther
<1>2. CASE body = Container(<<>>)
  <2>1. body.ctor = "container" /\ body.entries = <<>>
    BY <1>2 DEF Container
  <2>2. \A i \in DOMAIN body.entries :
           Inmost(body.entries[i]) \subseteq {} /\ Inner(body.entries[i]) \subseteq {}
    BY <2>1
  <2>3. RpcResultBody(body) \subseteq {}
    BY <2>1, <2>2, SearchContainer
  <2> QED
    BY <2>3
<1>3. CASE body = Container([i \in 1 .. MaxEntries + 1 |-> Service])
  <2> DEFINE entries == [i \in 1 .. MaxEntries + 1 |-> Service]
  <2>1. body.ctor = "container" /\ body.entries = entries
    BY <1>3 DEF Container
  <2>2. \A i \in DOMAIN entries : entries[i] = Service
    OBVIOUS
  <2> HIDE DEF entries
  <2>3. \A i \in DOMAIN body.entries :
           Inmost(body.entries[i]) \subseteq {} /\ Inner(body.entries[i]) \subseteq {}
    BY <2>1, <2>2, SearchOther
  <2>4. RpcResultBody(body) \subseteq {}
    BY <2>1, <2>3, SearchContainer
  <2> QED
    BY <2>4
<1> QED
  BY <1>1, <1>2, <1>3 DEF ServiceBodies

-----------------------------------------------------------------------------
(* The connection as a queue of frames.                                    *)
LEMMA TailOf ==
    ASSUME NEW S, NEW queue \in Seq(S), queue # <<>>
    PROVE  /\ Head(queue) = queue[1] /\ 1 \in DOMAIN queue /\ Head(queue) \in S
           /\ Tail(queue) \in Seq(S)
           /\ \A i \in DOMAIN Tail(queue) :
                 /\ i + 1 \in DOMAIN queue /\ i + 1 # 1
                 /\ Tail(queue)[i] = queue[i + 1]
           /\ \A i, j \in DOMAIN Tail(queue) : i + 1 = j + 1 => i = j
<1> QED
  OBVIOUS

LEMMA AppendTo ==
    ASSUME NEW S, NEW queue \in Seq(S), NEW x \in S
    PROVE  /\ Append(queue, x) \in Seq(S)
           /\ \A i \in DOMAIN Append(queue, x) :
                 \/ i \in DOMAIN queue /\ Append(queue, x)[i] = queue[i]
                 \/ i = Len(queue) + 1 /\ Append(queue, x)[i] = x
<1> QED
  OBVIOUS

LEMMA ReadOne ==
    ASSUME NEW queue \in Seq(Frames), queue # <<>>
    PROVE  /\ \A all : Known(queue, all) =>
                 Found(Head(queue)) \subseteq all /\ Known(Tail(queue), all)
           /\ NoResult(queue) => NoResult(Tail(queue))
           /\ OneResult(queue) => OneResult(Tail(queue))
           /\ OneResult(queue) /\ Found(Head(queue)) # {} => NoResult(Tail(queue))
           /\ \A s : ResultsOf(queue, s) =>
                 ResultsOf(Tail(queue), s) /\ \A r \in Found(Head(queue)) : r.call = s
           /\ NoPlain(queue) => NoPlain(Tail(queue)) /\ Head(queue) # PlainFrame
           /\ OnePlain(queue) => OnePlain(Tail(queue))
           /\ OnePlain(queue) /\ Head(queue) = PlainFrame => NoPlain(Tail(queue))
<1> DEFINE rest == Tail(queue)
           first == Head(queue)
<1>1. /\ first = queue[1] /\ 1 \in DOMAIN queue
      /\ \A i \in DOMAIN rest : /\ i + 1 \in DOMAIN queue /\ i + 1 # 1
                                /\ rest[i] = queue[i + 1]
      /\ \A i, j \in DOMAIN rest : i + 1 = j + 1 => i = j
  BY TailOf
<1> HIDE DEF rest, first
<1>2. \A all : Known(queue, all) => Found(first) \subseteq all /\ Known(rest, all)
  BY <1>1 DEF Known
<1>3. NoResult(queue) => NoResult(rest)
  BY <1>1 DEF NoResult
<1>4. OneResult(queue) => OneResult(rest)
  BY <1>1 DEF OneResult
<1>5. OneResult(queue) /\ Found(first) # {} => NoResult(rest)
  BY <1>1 DEF OneResult, NoResult
<1>6. \A s : ResultsOf(queue, s) =>
         ResultsOf(rest, s) /\ \A r \in Found(first) : r.call = s
  BY <1>1 DEF ResultsOf
<1>7. NoPlain(queue) => NoPlain(rest) /\ first # PlainFrame
  BY <1>1 DEF NoPlain
<1>8. OnePlain(queue) => OnePlain(rest)
  BY <1>1 DEF OnePlain
<1>9. OnePlain(queue) /\ first = PlainFrame => NoPlain(rest)
  BY <1>1 DEF OnePlain, NoPlain
<1> QED
  BY <1>2, <1>3, <1>4, <1>5, <1>6, <1>7, <1>8, <1>9 DEF rest, first

LEMMA AddOne ==
    ASSUME NEW queue \in Seq(Frames), NEW f \in Frames
    PROVE  /\ Append(queue, f) \in Seq(Frames)
           /\ \A all : Known(queue, all) /\ Found(f) \subseteq all =>
                 Known(Append(queue, f), all)
           /\ NoResult(queue) => OneResult(Append(queue, f))
           /\ OneResult(queue) /\ Found(f) = {} => OneResult(Append(queue, f))
           /\ \A s : ResultsOf(queue, s) /\ (\A r \in Found(f) : r.call = s) =>
                 ResultsOf(Append(queue, f), s)
           /\ NoPlain(queue) => OnePlain(Append(queue, f))
           /\ NoPlain(queue) /\ f # PlainFrame => NoPlain(Append(queue, f))
           /\ OnePlain(queue) /\ f # PlainFrame => OnePlain(Append(queue, f))
<1> DEFINE longer == Append(queue, f)
<1>1. \A i \in DOMAIN longer :
         \/ i \in DOMAIN queue /\ longer[i] = queue[i]
         \/ i = Len(queue) + 1 /\ longer[i] = f
  BY AppendTo
<1>2. longer \in Seq(Frames)
  BY AppendTo
<1> HIDE DEF longer
<1>3. \A all : Known(queue, all) /\ Found(f) \subseteq all => Known(longer, all)
  BY <1>1 DEF Known
<1>4. NoResult(queue) => OneResult(longer)
  BY <1>1 DEF OneResult, NoResult
<1>5. OneResult(queue) /\ Found(f) = {} => OneResult(longer)
  BY <1>1 DEF OneResult
<1>6. \A s : ResultsOf(queue, s) /\ (\A r \in Found(f) : r.call = s) =>
         ResultsOf(longer, s)
  BY <1>1 DEF ResultsOf
<1>7. NoPlain(queue) => OnePlain(longer)
  BY <1>1 DEF OnePlain, NoPlain
<1>8. NoPlain(queue) /\ f # PlainFrame => NoPlain(longer)
  BY <1>1 DEF NoPlain
<1>9. OnePlain(queue) /\ f # PlainFrame => OnePlain(longer)
  BY <1>1 DEF OnePlain
<1> QED
  BY <1>2, <1>3, <1>4, <1>5, <1>6, <1>7, <1>8, <1>9 DEF longer

(* The kinds of frames.                                                    *)
LEMMA FrameKinds ==
    /\ PlainFrame \in Frames /\ RefusedFrame \in Frames
    /\ Found(PlainFrame) = {} /\ Found(RefusedFrame) = {}
    /\ RefusedFrame # PlainFrame
    /\ \A body : /\ Encrypted(body) # PlainFrame
                 /\ Found(Encrypted(body)) = RpcResultBody(body)
    /\ \A body \in Bodies : Encrypted(body) \in Frames
    /\ \A f \in Frames : f.kind = "plain" => f = PlainFrame
<1>1. PlainFrame.kind = "plain" /\ RefusedFrame.kind = "refused"
  BY DEF PlainFrame, RefusedFrame
<1>2. \A body : /\ Encrypted(body).kind = "encrypted"
                /\ Encrypted(body).body = body
  BY DEF Encrypted
<1>3. Found(PlainFrame) = {} /\ Found(RefusedFrame) = {}
  BY <1>1 DEF Found
<1>4. \A body : /\ Encrypted(body) # PlainFrame
                /\ Found(Encrypted(body)) = RpcResultBody(body)
  BY <1>1, <1>2 DEF Found
<1> QED
  BY <1>1, <1>2, <1>3, <1>4 DEF Frames

LEMMA BodiesFound ==
    ASSUME NEW r \in Results
    PROVE  /\ \A body \in Packings(r) : /\ body \in Bodies
                                        /\ RpcResultBody(body) \subseteq {r}
           /\ r \in Packings(r)
           /\ \A e \in Results : /\ Behind(e, r) \in Bodies
                                 /\ RpcResultBody(Behind(e, r)) \subseteq {e, r}
<1>1. \A body \in Packings(r) : body \in Bodies
  BY DEF Bodies
<1>2. \A e \in Results : Behind(e, r) \in Bodies
  BY DEF Bodies
<1>3. r \in Packings(r)
  BY DEF Packings
<1> QED
  BY <1>1, <1>2, <1>3, FoundInPackings, FoundBehind

-----------------------------------------------------------------------------
(* What the server has answered.                                           *)
LEMMA EarlierAre ==
    ASSUME Types, Later, NEW r \in Earlier
    PROVE  /\ r.call \in Calls /\ r.call <= step /\ answers[r.call] # "none"
           /\ r.what = answers[r.call] /\ r \in Results
           /\ r.what = "authorization" => r.call = 5
           /\ r.what = "userFull" => r.call = 6
           /\ r.what = "sentCode" => r.call = 4
<1>1. PICK s \in Calls : answers[s] # "none" /\ r = Result(s, answers[s])
  BY DEF Earlier
<1>2. r.call = s /\ r.what = answers[s]
  BY <1>1 DEF Result
<1>3. s \in AllSteps /\ step \in AllSteps
  BY StepNames DEF Types
<1>4. answers[s] \in Outcomes(s)
  BY <1>1, <1>3 DEF Types
<1>5. r \in Results
  BY <1>1, <1>4 DEF Results
<1>6. s <= step
  BY <1>1, <1>3, SMT DEF Later, AllSteps
<1> QED
  BY <1>1, <1>2, <1>3, <1>4, <1>5, <1>6, OutcomeNames

(* The call that waits and was not answered: nothing in the connection     *)
(* answers it, whatever else may be there.                                 *)
LEMMA NoOwnYet ==
    ASSUME Types, Later, ResultsKnown, answers[step] = "none",
           ResultsOf(inbox, step)
    PROVE  NoResult(inbox)
<1>1. \A i \in DOMAIN inbox : \A r \in Found(inbox[i]) :
         r \in Earlier /\ r.call = step
  BY DEF ResultsKnown, Known, ResultsOf
<1>2. \A r \in Earlier : r.call # step
  BY EarlierAre
<1> QED
  BY <1>1, <1>2 DEF NoResult

LEMMA NoneInPlain ==
    ASSUME Types, Later, ResultsKnown, step <= 3
    PROVE  NoResult(inbox)
<1>1. \A r \in Earlier : FALSE
  <2> SUFFICES ASSUME NEW r \in Earlier PROVE FALSE
    OBVIOUS
  <2>1. r.call \in Calls /\ r.call <= step
    BY EarlierAre
  <2> QED
    BY <2>1, SMT DEF Calls, Types, AllSteps
<1> QED
  BY <1>1 DEF ResultsKnown, Known, NoResult

-----------------------------------------------------------------------------
(* The actions.                                                            *)
LEMMA InitInv == Init => IInv
<1> SUFFICES ASSUME Init PROVE IInv
  OBVIOUS
<1>1. Types
  <2>1. taken \in [Calls -> Seq(Results)]
    BY DEF Init
  <2>2. answers = [s \in AllSteps |-> "none"]
    BY StepNames DEF Init
  <2> QED
    BY <2>1, <2>2, SMT DEF Types, Init, AllSteps, Whats
<1>2. Later /\ Unsent /\ Awaited
  BY StepNames DEF Later, Unsent, Awaited, Init, AllSteps
<1>3. DOMAIN inbox = {}
  BY DEF Init
<1>4. PlainArrives /\ ResultsKnown /\ OnlyOwn
  BY <1>3 DEF PlainArrives, ResultsKnown, OnlyOwn, NoPlain, OnePlain, Known,
              OneResult, ResultsOf
<1>5. PrintsWhatHappened /\ OwnAnswerUnlessResent
  BY DEF PrintsWhatHappened, OwnAnswerUnlessResent, Init
<1> QED
  BY <1>1, <1>2, <1>4, <1>5 DEF IInv

(* What an error, or the last step, leaves behind.                         *)
LEMMA Failing ==
    ASSUME IInv, Fail, UNCHANGED <<outbox, server>>,
           UNCHANGED inbox \/ Read
    PROVE  IInv'
<1>0. /\ pc' = "failed" /\ step' = step /\ loggedIn' = loggedIn
      /\ profile' = profile /\ taken' = taken /\ outbox' = outbox
      /\ answers' = answers /\ resends' = resends
  BY DEF Fail, server
<1>1. inbox' = inbox \/ (inbox # <<>> /\ inbox' = Tail(inbox))
  BY DEF Read
<1>2. inbox \in Seq(Frames)
  BY DEF IInv, Types
<1>3. /\ inbox' \in Seq(Frames)
      /\ \A all : Known(inbox, all) => Known(inbox', all)
      /\ NoPlain(inbox) => NoPlain(inbox')
      /\ OnePlain(inbox) => OnePlain(inbox')
  <2>1. CASE inbox' = inbox
    BY <1>2, <2>1
  <2>2. CASE inbox # <<>> /\ inbox' = Tail(inbox)
    BY <1>2, <2>2, ReadOne, TailOf, Zenon
  <2> QED
    BY <1>1, <2>1, <2>2
<1>4. Types'
  BY <1>0, <1>3 DEF IInv, Types
<1>5. Later' /\ Unsent' /\ Awaited'
  BY <1>0 DEF IInv, Later, Unsent, Awaited
<1>6. PlainArrives'
  BY <1>0, <1>3 DEF IInv, PlainArrives
<1>7. ResultsKnown'
  BY <1>0, <1>3 DEF IInv, ResultsKnown, Earlier
<1>8. OnlyOwn'
  BY <1>0 DEF OnlyOwn
<1>9. PrintsWhatHappened' /\ OwnAnswerUnlessResent'
  BY <1>0 DEF IInv, PrintsWhatHappened, OwnAnswerUnlessResent
<1> QED
  BY <1>4, <1>5, <1>6, <1>7, <1>8, <1>9 DEF IInv

LEMMA AskStep ==
    ASSUME IInv, Ask
    PROVE  IInv'
<1>0. /\ pc \in {"start", "ask"} /\ pc' \in {"send", "failed"}
      /\ step' = step /\ loggedIn' = loggedIn
      /\ profile' = profile /\ taken' = taken /\ outbox' = outbox
      /\ answers' = answers /\ resends' = resends /\ inbox' = inbox
  BY DEF Ask, server
<1>1. outbox = <<>>
  BY <1>0 DEF IInv, Awaited
<1>2. Types'
  BY <1>0 DEF IInv, Types
<1>3. Later' /\ Unsent' /\ Awaited'
  BY <1>0, <1>1 DEF IInv, Later, Unsent, Awaited
<1>4. PlainArrives' /\ ResultsKnown' /\ OnlyOwn'
  BY <1>0 DEF IInv, PlainArrives, ResultsKnown, OnlyOwn, Earlier
<1>5. PrintsWhatHappened' /\ OwnAnswerUnlessResent'
  BY <1>0 DEF IInv, PrintsWhatHappened, OwnAnswerUnlessResent
<1> QED
  BY <1>2, <1>3, <1>4, <1>5 DEF IInv

LEMMA SendStep ==
    ASSUME IInv, Send
    PROVE  IInv'
<1>0. /\ pc = "send" /\ pc' = "wait"
      /\ step' = step /\ loggedIn' = loggedIn /\ outbox' = Append(outbox, step)
      /\ profile' = profile /\ taken' = taken
      /\ answers' = answers /\ resends' = resends /\ inbox' = inbox
  BY DEF Send, server
<1>1. outbox = <<>> /\ answers[step] = "none"
  BY <1>0 DEF IInv, Awaited, Unsent
<1>2. outbox' = <<step>>
  BY <1>0, <1>1
<1>3. Types'
  BY <1>0 DEF IInv, Types
<1>4. Later' /\ Unsent' /\ Awaited'
  BY <1>0, <1>1, <1>2 DEF IInv, Later, Unsent, Awaited
<1>5. PlainArrives' /\ ResultsKnown' /\ OnlyOwn'
  BY <1>0 DEF IInv, PlainArrives, ResultsKnown, OnlyOwn, Earlier
<1>6. PrintsWhatHappened' /\ OwnAnswerUnlessResent'
  BY <1>0 DEF IInv, PrintsWhatHappened, OwnAnswerUnlessResent
<1> QED
  BY <1>3, <1>4, <1>5, <1>6 DEF IInv

(* A plain answer read is the one this exchange waited for.                *)
LEMMA ReadPlainStep ==
    ASSUME IInv, ReadPlain
    PROVE  IInv'
<1>0. /\ Read /\ Plain(step) /\ Head(inbox) = PlainFrame
      /\ inbox # <<>> /\ inbox' = Tail(inbox) /\ pc = "wait"
      /\ UNCHANGED <<outbox, server>>
  BY DEF ReadPlain, Read
<1>1. CASE Fail
  BY <1>0, <1>1, Failing
<1>2. CASE pc' = "send" /\ step' = step + 1 /\ UNCHANGED <<reads, loggedIn, profile, taken>>
  <2>0. /\ pc' = "send" /\ step' = step + 1 /\ loggedIn' = loggedIn
        /\ profile' = profile /\ taken' = taken /\ outbox' = outbox
        /\ answers' = answers /\ resends' = resends
    BY <1>0, <1>2 DEF server
  <2>1. inbox \in Seq(Frames) /\ step \in AllSteps
    BY DEF IInv, Types
  <2>2. step \in 1 .. 3
    BY <1>0, <2>1, StepNames, SMT DEF AllSteps
  <2>3. /\ inbox' \in Seq(Frames)
        /\ \A all : Known(inbox, all) => Known(inbox', all)
        /\ NoResult(inbox) => NoResult(inbox')
        /\ NoPlain(inbox) => FALSE
        /\ OnePlain(inbox) => NoPlain(inbox')
    BY <1>0, <2>1, ReadOne, TailOf, Zenon
  <2>4. answers[step] # "none"
    BY <2>2, <2>3, SMT DEF IInv, PlainArrives
  <2>5. outbox = <<>>
    BY <2>4 DEF IInv, Awaited
  <2>6. NoResult(inbox')
    BY <2>2, <2>3, NoneInPlain, SMT DEF IInv
  <2>7. Types'
    <3>1. step' \in AllSteps
      BY <2>0, <2>2, SMT DEF AllSteps
    <3> QED
      BY <2>0, <2>3, <3>1 DEF IInv, Types
  <2>8. Later' /\ Unsent' /\ Awaited'
    <3>1. \A s \in AllSteps : s > step => answers[s] = "none"
      BY DEF IInv, Later
    <3>2. step + 1 \in AllSteps /\ step + 1 > step
          /\ \A s \in AllSteps : s > step + 1 => s > step
      BY <2>2, SMT DEF AllSteps
    <3>3. \A s \in AllSteps : s > step + 1 => answers[s] = "none"
      BY <3>1, <3>2
    <3>4. answers[step + 1] = "none"
      BY <3>1, <3>2
    <3> QED
      BY <2>0, <2>5, <3>3, <3>4 DEF Later, Unsent, Awaited
  <2>9. PlainArrives'
    <3>1. step + 1 <= 3 => NoPlain(inbox')
      BY <2>2, <2>3, SMT DEF IInv, PlainArrives
    <3>2. NoPlain(inbox') => OnePlain(inbox')
      BY DEF NoPlain, OnePlain
    <3>3. step + 1 <= 2 => step + 1 <= 3
      BY <2>2, SMT
    <3> QED
      BY <2>0, <3>1, <3>2, <3>3 DEF PlainArrives
  <2>10. ResultsKnown'
    BY <2>0, <2>3 DEF IInv, ResultsKnown, Earlier
  <2>11. OnlyOwn'
    BY <2>6 DEF OnlyOwn, NoResult, OneResult, ResultsOf
  <2>12. PrintsWhatHappened' /\ OwnAnswerUnlessResent'
    BY <2>0 DEF IInv, PrintsWhatHappened, OwnAnswerUnlessResent
  <2> QED
    BY <2>7, <2>8, <2>9, <2>10, <2>11, <2>12 DEF IInv
<1> QED
  BY <1>1, <1>2 DEF ReadPlain

LEMMA ReadOtherStep ==
    ASSUME IInv, ReadOther
    PROVE  IInv'
<1>0. /\ inbox # <<>> /\ inbox' = Tail(inbox) /\ pc = "wait"
      /\ pc' \in {"wait", "failed"} /\ step' = step /\ loggedIn' = loggedIn
      /\ profile' = profile /\ taken' = taken /\ outbox' = outbox
      /\ answers' = answers /\ resends' = resends
  BY DEF ReadOther, Read, server
<1>1. inbox \in Seq(Frames)
  BY DEF IInv, Types
<1>2. /\ inbox' \in Seq(Frames)
      /\ \A all : Known(inbox, all) => Known(inbox', all)
      /\ OneResult(inbox) => OneResult(inbox')
      /\ \A s : ResultsOf(inbox, s) => ResultsOf(inbox', s)
      /\ NoPlain(inbox) => NoPlain(inbox')
      /\ OnePlain(inbox) => OnePlain(inbox')
  BY <1>0, <1>1, ReadOne, TailOf, Zenon
<1>3. Types'
  BY <1>0, <1>2 DEF IInv, Types
<1>4. Later' /\ Unsent' /\ Awaited'
  BY <1>0 DEF IInv, Later, Unsent, Awaited
<1>5. PlainArrives'
  BY <1>0, <1>2 DEF IInv, PlainArrives
<1>6. ResultsKnown'
  BY <1>0, <1>2 DEF IInv, ResultsKnown, Earlier
<1>7. OnlyOwn'
  BY <1>0, <1>2 DEF IInv, OnlyOwn
<1>8. PrintsWhatHappened' /\ OwnAnswerUnlessResent'
  BY <1>0 DEF IInv, PrintsWhatHappened, OwnAnswerUnlessResent
<1> QED
  BY <1>3, <1>4, <1>5, <1>6, <1>7, <1>8 DEF IInv

(* A call takes a result: the server's answer to the call it names, and,   *)
(* unless an answer was resent, the last result on the way.                *)
LEMMA Taking ==
    ASSUME IInv, NEW r, Take(r)
    PROVE  /\ r \in Earlier /\ step \in Calls
           /\ pc = "wait" /\ outbox' = outbox /\ answers' = answers
           /\ resends' = resends /\ inbox' \in Seq(Frames)
           /\ taken' \in [Calls -> Seq(Results)]
           /\ resends = 0 => NoResult(inbox')
           /\ ResultsKnown' /\ OwnAnswerUnlessResent'
<1>0. /\ inbox # <<>> /\ inbox' = Tail(inbox) /\ pc = "wait"
      /\ outbox' = outbox /\ answers' = answers /\ resends' = resends
      /\ taken' = [taken EXCEPT ![step] = <<r>>]
  BY DEF Take, Read, server
<1>1. inbox \in Seq(Frames) /\ step \in AllSteps
  BY DEF IInv, Types
<1>2. step \in Calls
  <2>1. ~Plain(step)
    BY DEF Take
  <2>2. ~(step <= 3) <=> step > 3
    BY <1>1, SMT DEF AllSteps
  <2> QED
    BY <1>1, <2>1, <2>2, StepNames
<1>3. r \in Found(Head(inbox))
  BY DEF Take, HasResult, Found
<1>4. /\ inbox' \in Seq(Frames)
      /\ \A all : Known(inbox, all) => r \in all /\ Known(inbox', all)
      /\ OneResult(inbox) => NoResult(inbox')
      /\ \A s : ResultsOf(inbox, s) => r.call = s
  BY <1>0, <1>1, <1>3, ReadOne, TailOf, Zenon
<1>5. r \in Earlier
  BY <1>4 DEF IInv, ResultsKnown
<1>6. r \in Results
  BY <1>5, EarlierAre DEF IInv
<1>7. taken' \in [Calls -> Seq(Results)]
  <2>1. <<r>> \in Seq(Results)
    BY <1>6
  <2> QED
    BY <1>0, <2>1 DEF IInv, Types
<1>8. resends = 0 => NoResult(inbox') /\ r.call = step
  BY <1>0, <1>4 DEF IInv, OnlyOwn
<1>9. OwnAnswerUnlessResent'
  <2> SUFFICES ASSUME resends = 0, NEW s \in Calls, taken'[s] # <<>>
               PROVE  taken'[s][1].call = s
    BY <1>0 DEF OwnAnswerUnlessResent
  <2>1. DOMAIN taken = Calls
    BY DEF IInv, Types
  <2>2. CASE s = step
    BY <1>0, <1>8, <2>1, <2>2
  <2>3. CASE s # step
    <3>1. taken'[s] = taken[s]
      BY <1>0, <2>1, <2>3
    <3> QED
      BY <3>1 DEF IInv, OwnAnswerUnlessResent
  <2> QED
    BY <2>2, <2>3
<1>10. ResultsKnown'
  BY <1>0, <1>4 DEF IInv, ResultsKnown, Earlier
<1> QED
  BY <1>0, <1>2, <1>4, <1>5, <1>7, <1>8, <1>9, <1>10

(* The call after the one that took its answer.                            *)
LEMMA GoingOn ==
    ASSUME IInv, NEW r, Take(r), r.call = step, step <= 5,
           step' = step + 1, pc' \in {"send", "ask"}
    PROVE  /\ Types' /\ Later' /\ Unsent' /\ Awaited' /\ PlainArrives'
           /\ ResultsKnown' /\ OnlyOwn' /\ OwnAnswerUnlessResent'
<1>0. /\ r \in Earlier /\ step \in Calls
      /\ outbox' = outbox /\ answers' = answers
      /\ resends' = resends /\ inbox' \in Seq(Frames)
      /\ taken' \in [Calls -> Seq(Results)]
      /\ resends = 0 => NoResult(inbox')
      /\ ResultsKnown' /\ OwnAnswerUnlessResent'
  BY Taking, Zenon
<1>1. step \in {4, 5}
  BY <1>0, SMT DEF Calls
<1>2. answers[step] # "none"
  BY <1>0, EarlierAre DEF IInv
<1>3. outbox = <<>>
  BY <1>2 DEF IInv, Awaited
<1>4. Types'
  <2>1. step' \in AllSteps
    BY <1>1, SMT DEF AllSteps
  <2>2. pc' \in {"start", "send", "wait", "ask", "done", "failed"}
    OBVIOUS
  <2> QED
    BY <1>0, <2>1, <2>2 DEF IInv, Types
<1>5. Later' /\ Unsent' /\ Awaited'
  <2>1. \A s \in AllSteps : s > step => answers[s] = "none"
    BY DEF IInv, Later
  <2>2. step + 1 \in AllSteps /\ step + 1 > step
        /\ \A s \in AllSteps : s > step + 1 => s > step
    BY <1>1, SMT DEF AllSteps
  <2>3. \A s \in AllSteps : s > step + 1 => answers[s] = "none"
    BY <2>1, <2>2
  <2>4. answers[step + 1] = "none"
    BY <2>1, <2>2
  <2> QED
    BY <1>0, <1>3, <2>3, <2>4 DEF Later, Unsent, Awaited
<1>6. PlainArrives'
  <2>1. ~(step' <= 3) /\ ~(step' <= 2)
    BY <1>1, SMT
  <2> QED
    BY <2>1 DEF PlainArrives
<1>7. OnlyOwn'
  BY <1>0 DEF OnlyOwn, NoResult, OneResult, ResultsOf
<1> QED
  BY <1>0, <1>4, <1>5, <1>6, <1>7

(* The probe ends with the result it took.                                 *)
LEMMA GoingOut ==
    ASSUME IInv, NEW r, Take(r), step' = step, pc' \in {"done", "failed"}
    PROVE  /\ Types' /\ Later' /\ Unsent' /\ Awaited' /\ PlainArrives'
           /\ ResultsKnown' /\ OnlyOwn' /\ OwnAnswerUnlessResent'
<1>0. /\ step \in Calls /\ pc = "wait"
      /\ outbox' = outbox /\ answers' = answers
      /\ resends' = resends /\ inbox' \in Seq(Frames)
      /\ taken' \in [Calls -> Seq(Results)]
      /\ ResultsKnown' /\ OwnAnswerUnlessResent'
  BY Taking, Zenon
<1>1. Types'
  <2>1. pc' \in {"start", "send", "wait", "ask", "done", "failed"}
    OBVIOUS
  <2> QED
    BY <1>0, <2>1 DEF IInv, Types
<1>2. Later' /\ Unsent' /\ Awaited'
  BY <1>0 DEF IInv, Later, Unsent, Awaited
<1>3. PlainArrives'
  <2>1. ~(step' <= 3) /\ ~(step' <= 2)
    BY <1>0, SMT DEF Calls
  <2> QED
    BY <2>1 DEF PlainArrives
<1>4. OnlyOwn'
  BY DEF OnlyOwn
<1> QED
  BY <1>0, <1>1, <1>2, <1>3, <1>4

LEMMA TakeStep ==
    ASSUME IInv, TakeResult
    PROVE  IInv'
<1> PICK r : SentCode(r) \/ SignedIn(r) \/ GotMe(r)
  BY DEF TakeResult
<1>0. Take(r)
  BY DEF SentCode, SignedIn, GotMe
<1>1. /\ r \in Earlier /\ step \in AllSteps /\ answers' = answers
  BY <1>0, Taking, Zenon DEF IInv, Types
<1>2. /\ r.what = answers[r.call]
      /\ r.what = "authorization" => r.call = 5
      /\ r.what = "userFull" => r.call = 6
      /\ r.what = "sentCode" => r.call = 4
  BY <1>1, EarlierAre DEF IInv
<1>3. PrintsWhatHappened
  BY DEF IInv
<1>4. CASE SentCode(r)
  <2>0. step = 4 /\ loggedIn' = loggedIn /\ profile' = profile
    BY <1>1, <1>4, StepNames DEF SentCode
  <2>1. CASE r.what = "sentCode"
    <3>1. pc' = "ask" /\ step' = step + 1 /\ r.call = step /\ step <= 5
      BY <1>2, <1>4, <2>0, <2>1 DEF SentCode
    <3>2. PrintsWhatHappened'
      BY <1>1, <1>3, <2>0 DEF PrintsWhatHappened
    <3> QED
      BY <1>0, <3>1, <3>2, GoingOn DEF IInv
  <2>2. CASE r.what # "sentCode"
    <3>1. pc' = "failed" /\ step' = step
      BY <1>4, <2>2 DEF SentCode
    <3> QED
      BY <1>0, <1>1, <1>3, <2>0, <3>1, GoingOut DEF IInv, PrintsWhatHappened
  <2> QED
    BY <2>1, <2>2
<1>5. CASE SignedIn(r)
  <2>0. step = 5 /\ profile' = profile
    BY <1>1, <1>5, StepNames DEF SignedIn
  <2>1. CASE r.what = "authorization"
    <3>1. pc' = "send" /\ step' = step + 1 /\ r.call = step /\ step <= 5
      BY <1>2, <1>5, <2>0, <2>1 DEF SignedIn
    <3>2. PrintsWhatHappened'
      BY <1>1, <1>2, <1>3, <2>0, <2>1 DEF PrintsWhatHappened
    <3> QED
      BY <1>0, <3>1, <3>2, GoingOn DEF IInv
  <2>2. CASE r.what # "authorization"
    <3>1. pc' = "failed" /\ step' = step /\ loggedIn' = loggedIn
      BY <1>5, <2>2 DEF SignedIn
    <3> QED
      BY <1>0, <1>1, <1>3, <2>0, <3>1, GoingOut DEF IInv, PrintsWhatHappened
  <2> QED
    BY <2>1, <2>2
<1>6. CASE GotMe(r)
  <2>1. /\ pc' = "done" /\ profile' = r.what /\ step' = step
        /\ loggedIn' = loggedIn
    BY <1>6 DEF GotMe
  <2> QED
    BY <1>0, <1>1, <1>2, <1>3, <2>1, GoingOut DEF IInv, PrintsWhatHappened
<1> QED
  BY <1>4, <1>5, <1>6

-----------------------------------------------------------------------------
(* The server answers the call that waits, once; every answer it gave      *)
(* before stays what it was.                                               *)
LEMMA ServerAnswerStep ==
    ASSUME IInv, ServerAnswer
    PROVE  IInv'
<1>0. /\ pc' = pc /\ step' = step /\ loggedIn' = loggedIn
      /\ profile' = profile /\ taken' = taken /\ outbox' = Tail(outbox)
      /\ outbox # <<>>
  BY DEF ServerAnswer, client
<1>1. /\ outbox = <<step>> /\ answers[step] = "none"
      /\ pc \in {"wait", "failed", "done"}
  BY <1>0 DEF IInv, Awaited
<1>2. Head(outbox) = step /\ outbox' = <<>>
  BY <1>0, <1>1
<1>3. PICK what \in Outcomes(step) :
         /\ answers' = [answers EXCEPT ![step] = what]
         /\ IF Plain(step)
            THEN inbox' = Append(inbox, PlainFrame) /\ UNCHANGED resends
            ELSE Packed(Result(step, what))
  BY <1>2 DEF ServerAnswer
<1>4. /\ inbox \in Seq(Frames) /\ step \in AllSteps /\ resends \in Nat
      /\ answers \in [AllSteps -> Whats] /\ what \in Whats /\ what # "none"
  BY OutcomeNames DEF IInv, Types
<1>5. /\ answers'[step] = what
      /\ \A s \in AllSteps : s # step => answers'[s] = answers[s]
  BY <1>3, <1>4
<1>6. Earlier \subseteq Earlier'
  <2> SUFFICES ASSUME NEW s \in Calls, answers[s] # "none"
               PROVE  Result(s, answers[s]) \in Earlier'
    BY DEF Earlier
  <2>1. s \in AllSteps /\ s # step
    BY <1>1, StepNames
  <2>2. answers'[s] = answers[s]
    BY <1>5, <2>1
  <2> QED
    BY <2>2 DEF Earlier
<1>7. \A queue : Known(queue, Earlier) => Known(queue, Earlier')
  BY <1>6 DEF Known
<1>8. /\ inbox' \in Seq(Frames) /\ resends' \in Nat
      /\ PlainArrives' /\ ResultsKnown' /\ OnlyOwn'
  <2>1. CASE Plain(step)
    <3>1. inbox' = Append(inbox, PlainFrame) /\ resends' = resends
      BY <1>3, <2>1
    <3>2. step <= 3
      BY <1>4, <2>1, StepNames
    <3>3. NoPlain(inbox)
      BY <1>1, <3>2 DEF IInv, PlainArrives
    <3>4. /\ inbox' \in Seq(Frames)
          /\ \A all : Known(inbox, all) => Known(inbox', all)
          /\ OneResult(inbox) => OneResult(inbox')
          /\ \A s : ResultsOf(inbox, s) => ResultsOf(inbox', s)
          /\ OnePlain(inbox')
      BY <1>4, <3>1, <3>3, AddOne, FrameKinds
    <3>5. PlainArrives'
      BY <1>0, <1>4, <1>5, <3>4 DEF PlainArrives
    <3>6. ResultsKnown'
      BY <1>7, <3>4 DEF IInv, ResultsKnown
    <3>7. OnlyOwn'
      BY <1>0, <3>1, <3>4 DEF IInv, OnlyOwn
    <3> QED
      BY <1>4, <3>1, <3>4, <3>5, <3>6, <3>7
  <2>2. CASE ~Plain(step)
    <3> DEFINE r == Result(step, what)
    <3>1. step \in Calls /\ step > 3
      BY <1>4, <2>2, StepNames
    <3>2. r \in Results /\ r.call = step
      BY <3>1 DEF Results, Result
    <3>3. r \in Earlier'
      BY <1>4, <1>5, <3>1 DEF Earlier
    <3>4. Packed(r)
      BY <1>3, <2>2
    <3> HIDE DEF r
    <3>5. PlainArrives'
      <4>1. ~(step' <= 3) /\ ~(step' <= 2)
        BY <1>0, <1>4, <3>1, SMT DEF AllSteps
      <4> QED
        BY <4>1 DEF PlainArrives
    <3>6. CASE /\ \E body \in Packings(r) : inbox' = Append(inbox, Encrypted(body))
               /\ UNCHANGED resends
      <4>1. PICK body \in Packings(r) : inbox' = Append(inbox, Encrypted(body))
        BY <3>6
      <4>2. /\ Encrypted(body) \in Frames
            /\ Found(Encrypted(body)) \subseteq {r}
        BY <3>2, BodiesFound, FrameKinds
      <4>3. /\ inbox' \in Seq(Frames)
            /\ \A all : Known(inbox, all) /\ r \in all => Known(inbox', all)
            /\ NoResult(inbox) => OneResult(inbox')
            /\ ResultsOf(inbox, step) => ResultsOf(inbox', step)
        BY <1>4, <3>2, <4>1, <4>2, AddOne
      <4>4. ResultsKnown'
        BY <1>7, <3>3, <4>3 DEF IInv, ResultsKnown
      <4>5. OnlyOwn'
        <5> SUFFICES ASSUME resends = 0, pc \notin {"failed", "done"}
                     PROVE  OneResult(inbox') /\ ResultsOf(inbox', step)
          BY <1>0, <3>6 DEF OnlyOwn
        <5>1. ResultsOf(inbox, step)
          BY DEF IInv, OnlyOwn
        <5>2. NoResult(inbox)
          BY <1>1, <5>1, NoOwnYet DEF IInv
        <5> QED
          BY <4>3, <5>1, <5>2
      <4> QED
        BY <1>4, <3>5, <3>6, <4>3, <4>4, <4>5
    <3>7. CASE /\ resends < MaxResends /\ resends' = resends + 1
               /\ \E e \in Earlier : inbox' = Append(inbox, Encrypted(Behind(e, r)))
      <4>1. PICK e \in Earlier : inbox' = Append(inbox, Encrypted(Behind(e, r)))
        BY <3>7
      <4>2. e \in Results
        BY EarlierAre DEF IInv
      <4>3. /\ Encrypted(Behind(e, r)) \in Frames
            /\ Found(Encrypted(Behind(e, r))) \subseteq {e, r}
        BY <3>2, <4>2, BodiesFound, FrameKinds
      <4>4. /\ inbox' \in Seq(Frames)
            /\ \A all : Known(inbox, all) /\ e \in all /\ r \in all =>
                  Known(inbox', all)
        BY <1>4, <4>1, <4>3, AddOne
      <4>5. ResultsKnown'
        BY <1>6, <1>7, <3>3, <4>4 DEF IInv, ResultsKnown
      <4>6. resends' \in Nat /\ resends' # 0
        BY <1>4, <3>7, SMT
      <4> QED
        BY <3>5, <4>4, <4>5, <4>6 DEF OnlyOwn
    <3> QED
      BY <3>4, <3>6, <3>7 DEF Packed
  <2> QED
    BY <2>1, <2>2
<1>9. Types'
  <2>1. answers' \in [AllSteps -> Whats]
    BY <1>3, <1>4
  <2>2. \A s \in AllSteps : answers'[s] \in Outcomes(s) \cup {"none"}
    BY <1>4, <1>5 DEF IInv, Types
  <2> QED
    BY <1>0, <1>8, <2>1, <2>2 DEF IInv, Types
<1>10. Later'
  <2> SUFFICES ASSUME NEW s \in AllSteps, s > step PROVE answers'[s] = "none"
    BY <1>0 DEF Later
  <2>1. s # step
    BY <1>4, SMT DEF AllSteps
  <2> QED
    BY <1>5, <2>1 DEF IInv, Later
<1>11. Unsent' /\ Awaited'
  BY <1>0, <1>1, <1>2 DEF Unsent, Awaited
<1>12. PrintsWhatHappened'
  <2>1. 5 \in AllSteps /\ 6 \in AllSteps
    BY SMT DEF AllSteps
  <2>2. /\ answers[5] # "none" => answers'[5] = answers[5]
        /\ answers[6] # "none" => answers'[6] = answers[6]
    BY <1>1, <1>5, <2>1
  <2> QED
    BY <1>0, <2>2 DEF IInv, PrintsWhatHappened
<1>13. OwnAnswerUnlessResent'
  <2>1. resends' = 0 => resends = 0
    <3>1. resends' = resends \/ resends' = resends + 1
      BY <1>3 DEF Packed
    <3> QED
      BY <1>4, <3>1, SMT
  <2> QED
    BY <1>0, <2>1 DEF IInv, OwnAnswerUnlessResent
<1> QED
  BY <1>8, <1>9, <1>10, <1>11, <1>12, <1>13 DEF IInv

(* A frame no call asked for that holds no result.                         *)
LEMMA UnaskedStep ==
    ASSUME IInv, NEW f \in Frames, inbox' = Append(inbox, f),
           UNCHANGED <<client, outbox, answers, resends>>,
           Found(f) = {}, f = PlainFrame => answers[3] # "none"
    PROVE  IInv'
<1>0. /\ pc' = pc /\ step' = step /\ loggedIn' = loggedIn /\ resends' = resends
      /\ profile' = profile /\ taken' = taken /\ outbox' = outbox
      /\ answers' = answers
  BY DEF client
<1>1. inbox \in Seq(Frames) /\ step \in AllSteps
  BY DEF IInv, Types
<1>2. /\ inbox' \in Seq(Frames)
      /\ \A all : Known(inbox, all) => Known(inbox', all)
      /\ OneResult(inbox) => OneResult(inbox')
      /\ \A s : ResultsOf(inbox, s) => ResultsOf(inbox', s)
      /\ NoPlain(inbox) /\ f # PlainFrame => NoPlain(inbox')
      /\ OnePlain(inbox) /\ f # PlainFrame => OnePlain(inbox')
  BY <1>1, AddOne
<1>3. PlainArrives'
  <2>1. CASE f # PlainFrame
    BY <1>0, <1>2, <2>1 DEF IInv, PlainArrives
  <2>2. CASE f = PlainFrame
    <3>1. answers[3] # "none" /\ ~(3 > step)
      <4>1. 3 \in AllSteps
        BY SMT DEF AllSteps
      <4> QED
        BY <2>2, <4>1 DEF IInv, Later
    <3>2. ~(step <= 2) /\ (step <= 3 => step = 3)
      BY <1>1, <3>1, SMT DEF AllSteps
    <3> QED
      BY <1>0, <3>1, <3>2 DEF PlainArrives
  <2> QED
    BY <2>1, <2>2
<1>4. Types'
  BY <1>0, <1>2 DEF IInv, Types
<1>5. Later' /\ Unsent' /\ Awaited'
  BY <1>0 DEF IInv, Later, Unsent, Awaited
<1>6. ResultsKnown'
  BY <1>0, <1>2 DEF IInv, ResultsKnown, Earlier
<1>7. OnlyOwn'
  BY <1>0, <1>2 DEF IInv, OnlyOwn
<1>8. PrintsWhatHappened' /\ OwnAnswerUnlessResent'
  BY <1>0 DEF IInv, PrintsWhatHappened, OwnAnswerUnlessResent
<1> QED
  BY <1>3, <1>4, <1>5, <1>6, <1>7, <1>8 DEF IInv

LEMMA ServerServiceStep ==
    ASSUME IInv, ServerService
    PROVE  IInv'
<1>1. PICK body \in ServiceBodies : Unasked(Encrypted(body)) /\ UNCHANGED resends
  BY DEF ServerService
<1>2. body \in Bodies
  BY DEF Bodies
<1>3. /\ Encrypted(body) \in Frames /\ Encrypted(body) # PlainFrame
      /\ Found(Encrypted(body)) = {}
  BY <1>2, FoundInService, FrameKinds
<1> QED
  BY <1>1, <1>3, UnaskedStep DEF Unasked

LEMMA BadFrameStep ==
    ASSUME IInv, BadFrame
    PROVE  IInv'
<1>1. UNCHANGED resends
  BY DEF BadFrame
<1>2. CASE Unasked(RefusedFrame)
  BY <1>1, <1>2, FrameKinds, UnaskedStep DEF Unasked
<1>3. CASE Keyed /\ Unasked(PlainFrame)
  BY <1>1, <1>3, FrameKinds, UnaskedStep DEF Unasked, Keyed
<1> QED
  BY <1>2, <1>3 DEF BadFrame

LEMMA ServerResendStep ==
    ASSUME IInv, ServerResend
    PROVE  IInv'
<1>1. PICK r \in Earlier : Unasked(Encrypted(r)) /\ resends' = resends + 1
  BY DEF ServerResend
<1>0. /\ pc' = pc /\ step' = step /\ loggedIn' = loggedIn
      /\ profile' = profile /\ taken' = taken /\ outbox' = outbox
      /\ answers' = answers /\ inbox' = Append(inbox, Encrypted(r))
  BY <1>1 DEF Unasked, client
<1>2. inbox \in Seq(Frames) /\ step \in AllSteps /\ resends \in Nat
  BY DEF IInv, Types
<1>3. r \in Results /\ r.call \in Calls /\ r.call <= step
  BY EarlierAre DEF IInv
<1>4. /\ Encrypted(r) \in Frames /\ Encrypted(r) # PlainFrame
      /\ Found(Encrypted(r)) \subseteq {r}
  BY <1>3, BodiesFound, FrameKinds
<1>5. /\ inbox' \in Seq(Frames)
      /\ \A all : Known(inbox, all) /\ r \in all => Known(inbox', all)
  BY <1>0, <1>2, <1>4, AddOne
<1>6. resends' \in Nat /\ resends' # 0
  BY <1>1, <1>2, SMT
<1>7. Types'
  BY <1>0, <1>5, <1>6 DEF IInv, Types
<1>8. Later' /\ Unsent' /\ Awaited'
  BY <1>0 DEF IInv, Later, Unsent, Awaited
<1>9. PlainArrives'
  <2>1. ~(step <= 3) /\ ~(step <= 2)
    BY <1>2, <1>3, SMT DEF Calls, AllSteps
  <2> QED
    BY <1>0, <2>1 DEF PlainArrives
<1>10. ResultsKnown'
  BY <1>0, <1>5 DEF IInv, ResultsKnown, Earlier
<1>11. PrintsWhatHappened'
  BY <1>0 DEF IInv, PrintsWhatHappened
<1>12. OnlyOwn' /\ OwnAnswerUnlessResent'
  BY <1>6 DEF OnlyOwn, OwnAnswerUnlessResent
<1> QED
  BY <1>7, <1>8, <1>9, <1>10, <1>11, <1>12 DEF IInv

LEMMA NextInv ==
    ASSUME IInv, [Next]_vars
    PROVE  IInv'
<1>1. CASE Ask
  BY <1>1, AskStep
<1>2. CASE Send
  BY <1>2, SendStep
<1>3. CASE SendFails
  BY <1>3, Failing DEF SendFails
<1>4. CASE ReadPlain
  BY <1>4, ReadPlainStep
<1>5. CASE ReadForeign
  <2>1. Read /\ Fail
    BY <1>5 DEF ReadForeign
  <2> QED
    BY <2>1, Failing DEF Read
<1>6. CASE ReadOther
  BY <1>6, ReadOtherStep
<1>7. CASE TakeResult
  BY <1>7, TakeStep
<1>8. CASE TimedOut
  BY <1>8, Failing DEF TimedOut
<1>9. CASE ServerAnswer
  BY <1>9, ServerAnswerStep
<1>10. CASE ServerService
  BY <1>10, ServerServiceStep
<1>11. CASE ServerResend
  BY <1>11, ServerResendStep
<1>12. CASE BadFrame
  BY <1>12, BadFrameStep
<1>13. CASE UNCHANGED vars
  BY <1>13 DEF vars, client, server, IInv, Types, Later, Unsent, Awaited,
     PlainArrives, ResultsKnown, Earlier, OnlyOwn, PrintsWhatHappened,
     OwnAnswerUnlessResent
<1> QED
  BY <1>1, <1>2, <1>3, <1>4, <1>5, <1>6, <1>7, <1>8, <1>9, <1>10, <1>11, <1>12,
     <1>13 DEF Next, Client, Server

LEMMA Invariance == Spec => []IInv
<1>1. IInv /\ [Next]_vars => IInv'
  BY NextInv
<1> QED
  BY InitInv, <1>1, PTL DEF Spec

-----------------------------------------------------------------------------
(* run() prints "Login successful" only after the server granted the       *)
(* login, and a profile only when the server answered getMe with one:      *)
(* encrypted_call takes the first result it reads, whoever it answers and  *)
(* however often it was sent, and it is always one the server gave.        *)
THEOREM LoginIsGranted == Spec => []PrintsWhatHappened
<1>1. IInv => PrintsWhatHappened
  BY DEF IInv
<1> QED
  BY Invariance, <1>1, PTL

(* encrypted_call compares no message identifier; while no answer is sent  *)
(* twice, the result it takes is still the one to its own request.         *)
THEOREM TakesOwnAnswer == Spec => []OwnAnswerUnlessResent
<1>1. IInv => OwnAnswerUnlessResent
  BY DEF IInv
<1> QED
  BY Invariance, <1>1, PTL

(* send_plain and encrypted_call ask one thing at a time: whatever the     *)
(* server sends, a step is requested only when the one before it was       *)
(* answered, and it is answered only when it was requested.                *)
THEOREM OneAtATime == Spec => [](Later /\ Unsent /\ Awaited)
<1>1. IInv => Later /\ Unsent /\ Awaited
  BY DEF IInv
<1> QED
  BY Invariance, <1>1, PTL
=============================================================================
