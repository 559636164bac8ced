-------------------------- MODULE MCReceivedObjects --------------------------
(***************************************************************************)
(* The parsers of what comes from outside, in one instance: a behaviour    *)
(* takes one of five subjects and leaves the others in a fixed first       *)
(* state.  They share nothing.                                             *)
(*                                                                         *)
(* "document": session documents of two records, with the program's        *)
(* version and one more, a whole key and a passphrase, and salts used once *)
(* or twice.                                                               *)
(*                                                                         *)
(* "container": every msg_container of up to MaxWords words and up to four *)
(* declared entries (one more than the limit and than the width of the     *)
(* counter).  The words are 0, 4 and 6, so a length word asks for no body, *)
(* for one word, or for a body that is not whole words.                    *)
(*                                                                         *)
(* "bytes": TL bytes with bytes 0 .. 3 and a long form from a length of    *)
(* two on, so both forms, every amount of padding and the greatest length  *)
(* (63) occur.                                                             *)
(*                                                                         *)
(* "answer": every login answer of the schema except those in which an     *)
(* auth.authorization carries both of its integers.                        *)
(*                                                                         *)
(* "service": every service object and update with up to MaxVector + 1     *)
(* elements, and up to nine bytes too few or too many.                     *)
(***************************************************************************)
EXTENDS SessionDocument, MessageContainer, TlBytes

CONSTANTS
    MaxWords,                           \* of a container
    MaxInput,                           \* of a buffer with TL bytes
    MaxVector, MaxMissing               \* of the service objects

ASSUME LimitsAssumption == MaxVector \in Nat

VARIABLES
    subject,
    sent, received, parsed,
    body, written, parser, object

answerVars == <<sent, received, parsed>>
serviceVars == <<body, written, parser, object>>
allVars ==
    <<subject, vars, containerVars, bytesVars, answerVars, serviceVars>>

-----------------------------------------------------------------------------
MCContainers ==
    [count : 0 .. 4, words : UNION {[1 .. n -> {0, 4, 6}] : n \in 0 .. MaxWords}]

Content(n) == [i \in 1 .. n |-> i % Base]
Contents == {Content(n) : n \in (0 .. 7) \cup {MaxLength, MaxLength + 1}}
MCScripts == UNION {[1 .. n -> Contents] : n \in 1 .. 2}
MCCapacities == 0 .. 24 \cup {100}
MCBuffers == UNION {[1 .. n -> Byte] : n \in 0 .. MaxInput}

Service == INSTANCE ServiceObjects WITH
    Counts <- 0 .. MaxVector + 1, sent <- written

(* The answers that are not in the run of MCAuthorizationFields.           *)
Layouts == INSTANCE AuthResponse WITH Responses <- {}, result <- parsed
Unswapped ==
    {w \in Layouts!Wires : ~ \E i, j \in DOMAIN w :
        w[i].value = "otherwise_relogin_days" /\ w[j].value = "tmp_sessions"}

Login == INSTANCE AuthResponse WITH Responses <- Unswapped, result <- parsed

-----------------------------------------------------------------------------
MCBlock == 0 .. 15

Bit(n, i) == (n \div i) % 2
MCXor(a, b) ==
    LET bit(i) == (Bit(a, i) + Bit(b, i)) % 2
    IN  bit(1) + 2 * bit(2) + 4 * bit(4) + 8 * bit(8)

Saved == [dc_id |-> 1, auth_key_id |-> 2, server_salt |-> 3, session_id |-> 4,
          sequence_number |-> 5, pts |-> 6, qts |-> 7, date |-> 8, seq |-> 9,
          unread_count |-> 10, auth_key |-> 11]
MCRecords == {Saved, [Saved EXCEPT !.sequence_number = 12, !.pts = 13]}

(* A passphrase makes another key with each salt.                          *)
Passphrase(word) == [passphrase |-> TRUE, word |-> word]
WholeKey(word) == [passphrase |-> FALSE, word |-> word]
MCSecrets == {WholeKey(1), Passphrase(1)}
MCKeyFor(secret, salt) ==
    IF secret.passphrase THEN 2 + secret.word + salt ELSE secret.word

MCEncrypt(key, counter) == (3 * key[2] + 5 * counter[1] + 7 * counter[2]) % 16

-----------------------------------------------------------------------------
FixedContainer ==
    /\ input = [count |-> 0, words |-> <<>>] /\ stage = "unparsed"
    /\ cursor = 0 /\ remaining = 0 /\ handed = <<>> /\ failures = 0
FixedBytes ==
    /\ script = <<>> /\ asked = <<>> /\ capacity = 0 /\ buffer = <<>>
    /\ position = 0 /\ decoded = <<>> /\ status = "reading"
FixedAnswer == Login!Init
FixedService ==
    /\ body = Service!Body("pong", 16, 0) /\ written = Service!Body("pong", 16, 0)
    /\ parser = "none" /\ object = Service!Err("none")

MCInit ==
    \/ /\ subject = "document" /\ Init
       /\ FixedContainer /\ FixedBytes /\ FixedAnswer /\ FixedService
    \/ /\ subject = "container" /\ ContainerInit
       /\ Init /\ FixedBytes /\ FixedAnswer /\ FixedService
    \/ /\ subject = "bytes" /\ BytesInit
       /\ Init /\ FixedContainer /\ FixedAnswer /\ FixedService
    \/ /\ subject = "answer" /\ Login!Init
       /\ Init /\ FixedContainer /\ FixedBytes /\ FixedService
    \/ /\ subject = "service" /\ Service!Init
       /\ Init /\ FixedContainer /\ FixedBytes /\ FixedAnswer

DocumentStep ==
    /\ subject = "document" /\ Next
    /\ UNCHANGED <<subject, containerVars, bytesVars, answerVars, serviceVars>>
ContainerStep ==
    /\ subject = "container" /\ ContainerNext
    /\ UNCHANGED <<subject, vars, bytesVars, answerVars, serviceVars>>
BytesStep ==
    /\ subject = "bytes" /\ BytesNext
    /\ UNCHANGED <<subject, vars, containerVars, answerVars, serviceVars>>
AnswerStep ==
    /\ subject = "answer" /\ Login!Next
    /\ UNCHANGED <<subject, vars, containerVars, bytesVars, serviceVars>>
ServiceStep ==
    /\ subject = "service" /\ Service!Next
    /\ UNCHANGED <<subject, vars, containerVars, bytesVars, answerVars>>

MCNext == DocumentStep \/ ContainerStep \/ BytesStep \/ AnswerStep \/ ServiceStep

MCSpec == MCInit /\ [][MCNext]_allVars

-----------------------------------------------------------------------------
(* Every field of an answer or a service object is read from where the    *)
(* schema puts it.                                                         *)
FieldsBySchema == Login!ParsesWhatWasSent /\ Service!ReadsByTheSchema

(* An answer or a service object that was cut or continued is refused, up  *)
(* to the opaque field it may end in, which is taken as it comes.          *)
DamagedRefused == Login!DamagedIsRefused /\ Service!DamagedObjectRefused
===============================================================================
