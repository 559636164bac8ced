----------------------------- MODULE ReplayGuard -----------------------------
(***************************************************************************)
(* The receive path a host builds from mtproto/message_id.rs: each message *)
(* identifier that arrives is checked with validate_message_id against the *)
(* host's clock and then offered to the connection's MessageIdWindow.  The *)
(* server numbers its messages by its own clock; the network may delay,    *)
(* reorder and repeat them; the host may restart, and the window, which is *)
(* never persisted, is then new.                                           *)
(*                                                                         *)
(* An identifier is seconds * TicksPerSecond + ticks: the shift by 32 of   *)
(* the code is a division by TicksPerSecond, and the two low bits keep     *)
(* their meaning because TicksPerSecond is a multiple of four.             *)
(***************************************************************************)
EXTENDS MessageIdWindow, Sequences

CONSTANTS
    TicksPerSecond,     \* message_id >> 32
    PastLimit,          \* how old a message may be, in seconds (300)
    FutureLimit,        \* how far in the future (30)
    MaxSkew,            \* bound: how far the two clocks drift apart
    MaxTime,            \* bound: the last second the clocks reach
    MaxSent,            \* bound: messages the server sends
    MaxDeliveries,      \* bound: messages handed to the application
    MaxRestarts         \* bound: restarts of the host

ASSUME LimitsAssumption ==
    /\ TicksPerSecond \in Nat \ {0} /\ TicksPerSecond % 4 = 0
    /\ PastLimit \in Nat /\ FutureLimit \in Nat

(* The numbers of every second the clocks reach are identifiers.           *)
ASSUME NumbersAssumption ==
    \A second \in 0 .. MaxTime, ticks \in 0 .. TicksPerSecond - 1 :
        second * TicksPerSecond + ticks \in MessageIds

ASSUME BoundsAssumption ==
    /\ MaxTime \in Nat /\ MaxSkew \in 0 .. MaxTime /\ MaxRestarts \in Nat

VARIABLES
    serverClock,    \* seconds
    hostClock,      \* unix_seconds, the argument of validate_message_id
    sent,           \* identifiers the server has used; any may still arrive
    epoch,          \* how many times the host restarted
    delivered,      \* history: what the application was given, in order
    refused,        \* history: the last identifier refused, 0 if none was
    expired         \* history: identifiers refused for being too old in time

history == <<delivered, refused, expired>>
guardVars == <<serverClock, hostClock, sent, vars, epoch, history>>
                                        \* vars are the window's

Seconds(id) == id \div TicksPerSecond

-----------------------------------------------------------------------------
(* validate_message_id, one operator per reason to refuse.                 *)
ParityOk(id, direction) ==
    IF direction = "client_to_server" THEN id % 4 = 0 ELSE id % 4 \in {1, 3}

(* Mutants: each limit is off by one. *)
TooLateByOne(id, now) == Seconds(id) + PastLimit + 1 < now
TooEarlyByOne(id, now) == Seconds(id) >= now + FutureLimit

TooLate(id, now) == Seconds(id) + PastLimit < now
TooEarly(id, now) == Seconds(id) > now + FutureLimit

Valid(id, direction, now) ==
    ParityOk(id, direction) /\ ~TooLate(id, now) /\ ~TooEarly(id, now)

-----------------------------------------------------------------------------
GuardInit ==
    /\ serverClock \in 0 .. MaxSkew
    /\ hostClock \in 0 .. MaxSkew
    /\ sent = {}
    /\ Init
    /\ epoch = 0
    /\ delivered = <<>>
    /\ refused = 0
    /\ expired = {}

ServerTick ==
    /\ serverClock < MaxTime
    /\ serverClock + 1 - hostClock <= MaxSkew
    /\ serverClock' = serverClock + 1
    /\ UNCHANGED <<hostClock, sent, vars, epoch, history>>

HostTick ==
    /\ hostClock < MaxTime
    /\ hostClock + 1 - serverClock <= MaxSkew
    /\ hostClock' = hostClock + 1
    /\ UNCHANGED <<serverClock, sent, vars, epoch, history>>

(* The server's identifiers carry its clock and are never reused.          *)
ServerSend ==
    /\ Cardinality(sent) < MaxSent
    /\ \E ticks \in {t \in 0 .. TicksPerSecond - 1 : t % 4 \in {1, 3}} :
          LET id == serverClock * TicksPerSecond + ticks
          IN  /\ id \notin sent
              /\ sent' = sent \cup {id}
    /\ UNCHANGED <<serverClock, hostClock, vars, epoch, history>>

(* validate_message_id returns an error: the window is not consulted.      *)
RefuseInvalid(id) ==
    /\ ~Valid(id, "server_to_client", hostClock)
    /\ expired' = IF TooLate(id, hostClock) THEN expired \cup {id} ELSE expired
    /\ refused' = id
    /\ UNCHANGED <<serverClock, hostClock, sent, vars, epoch, delivered>>

(* Mutant: the window decides whatever validate_message_id answered.       *)
OfferUnvalidated(id) ==
    /\ Len(delivered) < MaxDeliveries
    /\ Insert(id)
    /\ IF verdict'.result = "ok"
       THEN /\ delivered' = Append(delivered, [id |-> id, epoch |-> epoch,
                                              at |-> hostClock])
            /\ UNCHANGED refused
       ELSE refused' = id /\ UNCHANGED delivered
    /\ UNCHANGED <<serverClock, hostClock, sent, epoch, expired>>

(* The identifier is valid and insert decides.                             *)
OfferToWindow(id) ==
    /\ Valid(id, "server_to_client", hostClock)
    /\ Len(delivered) < MaxDeliveries
    /\ Insert(id)
    /\ IF verdict'.result = "ok"
       THEN /\ delivered' = Append(delivered, [id |-> id, epoch |-> epoch,
                                              at |-> hostClock])
            /\ UNCHANGED refused
       ELSE /\ refused' = id
            /\ UNCHANGED delivered
    /\ UNCHANGED <<serverClock, hostClock, sent, epoch, expired>>

(* A copy of any message ever sent arrives; it stays available to arrive   *)
(* again.                                                                  *)
Receive == \E id \in sent : RefuseInvalid(id) \/ OfferToWindow(id)

(* The host restarts and calls MessageIdWindow::new.                       *)
Restart ==
    /\ epoch < MaxRestarts
    /\ epoch' = epoch + 1
    /\ ids' = [i \in 1 .. Capacity |-> 0]
    /\ used' = 0
    /\ accepted' = {}
    /\ verdict' = [id |-> 0, result |-> "none"]
    /\ UNCHANGED <<serverClock, hostClock, sent, history>>

GuardNext == ServerTick \/ HostTick \/ ServerSend \/ Receive \/ Restart

GuardSpec == GuardInit /\ [][GuardNext]_guardVars

-----------------------------------------------------------------------------
GuardTypeOK ==
    /\ serverClock \in 0 .. MaxTime /\ hostClock \in 0 .. MaxTime
    /\ sent \subseteq MessageIds
    /\ TypeOK
    /\ epoch \in 0 .. MaxRestarts
    /\ delivered \in Seq([id : sent, epoch : 0 .. epoch, at : 0 .. hostClock])
    /\ refused \in sent \cup {0}
    /\ expired \subseteq sent

(* The application sees a message twice only across a restart, and then    *)
(* the second copy comes at most PastLimit seconds after the message's own *)
(* second: the window stops replays within a run, the clock check bounds   *)
(* the ones a lost window lets through.                                    *)
ReplayOnlyAcrossRestart ==
    \A i, j \in DOMAIN delivered :
        i < j /\ delivered[i].id = delivered[j].id =>
            /\ delivered[i].epoch < delivered[j].epoch
            /\ delivered[j].at <= Seconds(delivered[j].id) + PastLimit

(* A copy that reaches the host in time, for the first time in this run,   *)
(* is delivered unless Capacity newer messages already were: delay,        *)
(* reordering and the other copies cannot make an honest message vanish.   *)
InTime(id) ==
    /\ hostClock <= Seconds(id) + PastLimit
    /\ Seconds(id) <= hostClock + FutureLimit

NoHonestLoss ==
    [][\A id \in sent :
          /\ InTime(id) /\ id \notin accepted
          /\ Cardinality({a \in accepted : a > id}) < Capacity
          => ~(refused' = id /\ refused # id)]_guardVars

(* Once refused for its age a message stays refused, restarts or not.      *)
ExpiredStaysOut ==
    [][\A id \in expired : delivered' # delivered =>
          delivered'[Len(delivered')].id # id]_guardVars
=============================================================================
