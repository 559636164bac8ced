--------------------------- MODULE MessageContainer ---------------------------
(***************************************************************************)
(* A msg_container as service.rs reads it: parse_service checks the count  *)
(* and hands out an iterator, next_message reads one entry per call, and   *)
(* finish asks whether the container was read to its end.  The iterator    *)
(* stays usable after a call that failed, and the cursor then stays where  *)
(* the failing read left it.                                               *)
(*                                                                         *)
(* The input is a sequence of 32-bit words, each a small number: an entry  *)
(* is two words of message identifier, one of sequence number, one that    *)
(* holds the body's length in bytes, and the body.                         *)
(***************************************************************************)
EXTENDS Integers, Sequences, SequencesExt

CONSTANTS
    Containers,     \* what may follow the constructor: [count, words]
    MaxMessages,    \* GatewayConfig::max_container_messages
    Modulus         \* `count as u16` keeps count % Modulus (2^16)

(* The limit is a u16, as the counter is.                                  *)
ASSUME ContainersAssumption ==
    /\ MaxMessages \in Nat /\ Modulus \in Nat /\ MaxMessages < Modulus
    /\ \A c \in Containers : c.count \in Nat /\ c.words \in Seq(Nat)

VARIABLES
    input,          \* the container: its declared count and its words
    cursor,         \* its position, in words
    remaining,
    handed,         \* history: the entries next_message returned
    failures,       \* history: how many calls returned an error
    stage           \* "unparsed", "open", "refused", "complete", "incomplete"

containerVars == <<input, cursor, remaining, handed, failures, stage>>

HeaderWords == 4

WordsLeft == Len(input.words) - cursor
Word(i) == input.words[cursor + i]
BodyBytes == Word(HeaderWords)
BodyWords == BodyBytes \div 4

Entry ==
    [id |-> <<Word(1), Word(2)>>, sequence |-> Word(3),
     body |-> SubSeq(input.words, cursor + HeaderWords + 1,
                     cursor + HeaderWords + BodyWords)]

-----------------------------------------------------------------------------
ContainerInit ==
    /\ input \in Containers
    /\ cursor = 0 /\ remaining = 0
    /\ handed = <<>> /\ failures = 0
    /\ stage = "unparsed"

(* parse_service, MSG_CONTAINER.                                           *)
Parse ==
    /\ stage = "unparsed"
    /\ input.count <= MaxMessages
    /\ stage' = "open"
    /\ remaining' = input.count % Modulus
    /\ UNCHANGED <<input, cursor, handed, failures>>

ParseTooMany ==
    /\ stage = "unparsed"
    /\ input.count > MaxMessages
    /\ stage' = "refused"
    /\ UNCHANGED <<input, cursor, remaining, handed, failures>>

-----------------------------------------------------------------------------
(* next_message: whatever comes of it, one entry fewer remains.            *)
Call ==
    /\ stage = "open" /\ remaining > 0
    /\ remaining' = remaining - 1
    /\ UNCHANGED <<input, stage>>

Failing == failures' = failures + 1 /\ UNCHANGED handed

(* The header is cut short: the fields that were there have been read.     *)
NextCutHeader ==
    /\ Call /\ WordsLeft < HeaderWords
    /\ cursor' = IF WordsLeft < 2 THEN cursor ELSE Len(input.words)
    /\ Failing

(* The body's length is not a multiple of four bytes.                      *)
NextMisaligned ==
    /\ Call /\ WordsLeft >= HeaderWords /\ BodyBytes % 4 # 0
    /\ cursor' = cursor + HeaderWords
    /\ Failing

(* The body is longer than what is left.                                   *)
NextCutBody ==
    /\ Call /\ WordsLeft >= HeaderWords /\ BodyBytes % 4 = 0
    /\ WordsLeft - HeaderWords < BodyWords
    /\ cursor' = cursor + HeaderWords
    /\ Failing

(* Mutant: the body is borrowed and not skipped.                           *)
NextEntryUnskipped ==
    /\ Call /\ WordsLeft >= HeaderWords /\ BodyBytes % 4 = 0
    /\ WordsLeft - HeaderWords >= BodyWords
    /\ handed' = Append(handed, Entry)
    /\ cursor' = cursor + HeaderWords
    /\ UNCHANGED failures

NextEntry ==
    /\ Call /\ WordsLeft >= HeaderWords /\ BodyBytes % 4 = 0
    /\ WordsLeft - HeaderWords >= BodyWords
    /\ handed' = Append(handed, Entry)
    /\ cursor' = cursor + HeaderWords + BodyWords
    /\ UNCHANGED failures

-----------------------------------------------------------------------------
(* Mutant: only the entries are counted, not the bytes.                    *)
FinishCounting ==
    /\ stage = "open"
    /\ stage' = IF remaining = 0 THEN "complete" ELSE "incomplete"
    /\ UNCHANGED <<input, cursor, remaining, handed, failures>>

(* finish: no entry and no byte remains.                                   *)
Finish ==
    /\ stage = "open"
    /\ stage' = IF remaining = 0 /\ WordsLeft = 0 THEN "complete" ELSE "incomplete"
    /\ UNCHANGED <<input, cursor, remaining, handed, failures>>

ContainerNext ==
    \/ Parse \/ ParseTooMany
    \/ NextCutHeader \/ NextMisaligned \/ NextCutBody \/ NextEntry
    \/ Finish

ContainerSpec == ContainerInit /\ [][ContainerNext]_containerVars

-----------------------------------------------------------------------------
(* What a sender writes for an entry, and for a container.                 *)
EntryWords(e) == e.id \o <<e.sequence, 4 * Len(e.body)>> \o e.body
Packed(entries) == FlattenSeq([i \in DOMAIN entries |-> EntryWords(entries[i])])

(* As long as no call failed, what was handed out is exactly what the      *)
(* bytes read so far encode: no entry is skipped, repeated, or read from   *)
(* the inside of another one.                                              *)
ReadsWhatWasPacked ==
    failures = 0 => SubSeq(input.words, 1, cursor) = Packed(handed)

(* A container that finish calls complete, and in which no call failed,    *)
(* was handed over whole: as many entries as it declared, and all of its   *)
(* bytes.                                                                  *)
CompleteMeansWhole ==
    stage = "complete" /\ failures = 0 =>
        Len(handed) = input.count /\ input.words = Packed(handed)
===============================================================================
