-------------------------------- MODULE TlBytes --------------------------------
(***************************************************************************)
(* TL `bytes` as tl/writer.rs writes them into the caller's buffer and     *)
(* tl/cursor.rs reads them: a length in one byte below Long, otherwise the *)
(* marker Long and three bytes; the value; zeros up to a multiple of four. *)
(*                                                                         *)
(* A caller writes values one after the other and stops at the first       *)
(* error, as `?` does everywhere in the library; or it reads a buffer,     *)
(* this one or any other, until it is empty or a read fails.               *)
(***************************************************************************)
EXTENDS Integers, Sequences, SequencesExt

CONSTANTS
    Long,           \* the marker of the long form (254)
    Scripts,        \* sequences of values a caller writes
    Capacities,     \* sizes of the caller's buffer
    Buffers         \* buffers a caller reads that no Writer filled

Base == Long + 2        \* bytes are 0 .. 255
Byte == 0 .. Base - 1
MaxLength == Base * Base * Base - 1

ASSUME BytesAssumption ==
    /\ Long \in Nat
    /\ Scripts \subseteq Seq(Seq(Byte)) /\ Buffers \subseteq Seq(Byte)
    /\ Capacities \subseteq Nat

VARIABLES
    script,         \* values still to be written
    asked,          \* history: the values whose writing was tried
    capacity,
    buffer,         \* the written part of the buffer, or what is read
    position,       \* the cursor
    decoded,         \* the values read
    status          \* "writing", "full", "tooLong", "reading", or a read's error

bytesVars == <<script, asked, capacity, buffer, position, decoded, status>>

-----------------------------------------------------------------------------
Zeros(n) == [i \in 1 .. n |-> 0]
Padding(header, length) == (4 - ((header + length) % 4)) % 4

(* Mutant: the limit of the short form counts as short.                    *)
HeaderLate(length) ==
    IF length <= Long THEN <<<<length>>>>
    ELSE <<<<Long>>, <<length % Base, (length \div Base) % Base, length \div (Base * Base)>>>>

(* The length's writes, one or two of them.                                *)
Header(length) ==
    IF length < Long THEN <<<<length>>>>
    ELSE <<<<Long>>, <<length % Base, (length \div Base) % Base, length \div (Base * Base)>>>>

HeaderSize(length) == IF length < Long THEN 1 ELSE 4

(* The calls of write_all that write_bytes makes, in their order.          *)
Pieces(v) ==
    Header(Len(v)) \o <<v, Zeros(Padding(HeaderSize(Len(v)), Len(v)))>>

Encoding(v) == FlattenSeq(Pieces(v))

-----------------------------------------------------------------------------
BytesInit ==
    /\ asked = <<>> /\ position = 0 /\ decoded = <<>>
    /\ \/ /\ script \in Scripts /\ capacity \in Capacities
          /\ buffer = <<>> /\ status = "writing"
       \/ /\ script = <<>> /\ buffer \in Buffers /\ capacity = Len(buffer)
          /\ status = "reading"

Asking ==
    /\ status = "writing" /\ script # <<>>
    /\ asked' = Append(asked, Head(script))
    /\ script' = Tail(script)
    /\ UNCHANGED <<capacity, position, decoded>>

Fits(v, n) == Len(buffer) + Len(FlattenSeq(SubSeq(Pieces(v), 1, n))) <= capacity

WriteWhole ==
    /\ Asking
    /\ LET v == Head(script)
       IN  /\ Len(v) <= MaxLength /\ Fits(v, Len(Pieces(v)))
           /\ buffer' = buffer \o Encoding(v)
    /\ UNCHANGED status

(* Mutant: the value does not fit, and its padding is written all the same.*)
WritePartialGoingOn ==
    /\ Asking
    /\ LET v == Head(script)
           written == FlattenSeq(Header(Len(v))) \o Zeros(Padding(HeaderSize(Len(v)), Len(v)))
       IN  /\ Len(v) <= MaxLength /\ ~Fits(v, Len(Pieces(v)))
           /\ Len(buffer) + Len(written) <= capacity
           /\ buffer' = buffer \o written
    /\ status' = "full"

(* A piece does not fit: those before it stay in the buffer.               *)
WritePartial ==
    /\ Asking
    /\ LET v == Head(script)
       IN  /\ Len(v) <= MaxLength
           /\ \E n \in DOMAIN Pieces(v) :
                /\ ~Fits(v, n) /\ Fits(v, n - 1)
                /\ buffer' = buffer \o FlattenSeq(SubSeq(Pieces(v), 1, n - 1))
    /\ status' = "full"

WriteTooLong ==
    /\ Asking /\ Len(Head(script)) > MaxLength
    /\ status' = "tooLong"
    /\ UNCHANGED buffer

(* What was written is read again; what a failed write left is not.        *)
Turn ==
    /\ status = "writing" /\ script = <<>>
    /\ status' = "reading"
    /\ UNCHANGED <<script, asked, capacity, buffer, position, decoded>>

-----------------------------------------------------------------------------
BytesLeft == Len(buffer) - position
At(i) == buffer[position + i]

Declared ==
    IF At(1) < Long THEN At(1) ELSE At(2) + Base * At(3) + Base * Base * At(4)

(* The length is there, and in the only form it may have.                  *)
HeaderRead ==
    /\ BytesLeft >= 1
    /\ \/ At(1) < Long
       \/ At(1) = Long /\ BytesLeft >= 4 /\ Declared >= Long

HeaderLen == IF At(1) < Long THEN 1 ELSE 4
PaddingLen == Padding(HeaderLen, Declared)
PaddingBytes ==
    {At(i) : i \in HeaderLen + Declared + 1 .. HeaderLen + Declared + PaddingLen}

Reading ==
    /\ status = "reading" /\ BytesLeft > 0
    /\ UNCHANGED <<script, asked, capacity, buffer>>

Stop(error, moved) ==
    status' = error /\ position' = position + moved /\ UNCHANGED decoded

(* Mutant: a short length in the long form is taken.                       *)
ReadLoose ==
    /\ Reading
    /\ (At(1) < Long) \/ (At(1) = Long /\ BytesLeft >= 4)
    /\ BytesLeft >= HeaderLen + Declared + PaddingLen
    /\ PaddingBytes \subseteq {0}
    /\ decoded' = Append(decoded, SubSeq(buffer, position + HeaderLen + 1,
                                       position + HeaderLen + Declared))
    /\ position' = position + HeaderLen + Declared + PaddingLen
    /\ UNCHANGED status

Read ==
    /\ Reading /\ HeaderRead
    /\ BytesLeft >= HeaderLen + Declared + PaddingLen
    /\ PaddingBytes \subseteq {0}
    /\ decoded' = Append(decoded, SubSeq(buffer, position + HeaderLen + 1,
                                       position + HeaderLen + Declared))
    /\ position' = position + HeaderLen + Declared + PaddingLen
    /\ UNCHANGED status

(* NeedMore: the header, the value or the padding is cut; the parts before *)
(* it are consumed.                                                        *)
ReadCut ==
    /\ Reading
    /\ \/ At(1) = Long /\ BytesLeft < 4 /\ Stop("NeedMore", 1)
       \/ /\ HeaderRead /\ BytesLeft < HeaderLen + Declared
          /\ Stop("NeedMore", HeaderLen)
       \/ /\ HeaderRead /\ BytesLeft >= HeaderLen + Declared
          /\ BytesLeft < HeaderLen + Declared + PaddingLen
          /\ Stop("NeedMore", HeaderLen + Declared)

(* InvalidLength: no marker of a length, or a short length in long form.   *)
ReadNonCanonical ==
    /\ Reading
    /\ \/ At(1) > Long /\ Stop("InvalidLength", 1)
       \/ At(1) = Long /\ BytesLeft >= 4 /\ Declared < Long /\ Stop("InvalidLength", 4)

(* InvalidPacket; GatewayConfig::strict_tl_padding has no say in it.       *)
ReadDirtyPadding ==
    /\ Reading /\ HeaderRead
    /\ BytesLeft >= HeaderLen + Declared + PaddingLen
    /\ ~(PaddingBytes \subseteq {0})
    /\ Stop("InvalidPacket", HeaderLen + Declared + PaddingLen)

BytesNext ==
    \/ WriteWhole \/ WritePartial \/ WriteTooLong \/ Turn
    \/ Read \/ ReadCut \/ ReadNonCanonical \/ ReadDirtyPadding

BytesSpec == BytesInit /\ [][BytesNext]_bytesVars

-----------------------------------------------------------------------------
Encodings(vs) == FlattenSeq([i \in DOMAIN vs |-> Encoding(vs[i])])

(* What is in the buffer, a failed write's leftovers included, is always   *)
(* the beginning of what the caller asked to write; without a failure it   *)
(* is all of it, in whole 32-bit words.                                    *)
PrefixOfAsked ==
    asked # <<>> =>
        /\ status # "tooLong" => IsPrefix(buffer, Encodings(asked))
        /\ status \in {"writing", "reading"} =>
             buffer = Encodings(asked) /\ Len(buffer) % 4 = 0

(* What was written is read back: every value, in order, and no read of it *)
(* fails.                                                                  *)
ReadsWhatWasWritten ==
    asked # <<>> /\ status \notin {"writing", "full", "tooLong"} =>
        /\ status = "reading"
        /\ IsPrefix(decoded, asked)
        /\ position = Len(buffer) => decoded = asked

(* Every value has one encoding: what a read of any buffer took is exactly *)
(* what writing the values gives, however the buffer came to be.           *)
Canonical ==
    status = "reading" => Encodings(decoded) = SubSeq(buffer, 1, position)
===============================================================================
