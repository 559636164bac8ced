# TRLib in TLA+

Models of TRLib, the runtime-independent MTProto 2.0 core in `src/`, the TLC
runs that check them on small instances, and the theorems TLAPS proves about
them for every instance. `PROJECT.json` lists runs, findings, hazards and, for
every definition, the source lines it models.

## The system

TRLib owns no socket, no thread and no buffer. It is a set of parsers, writers
and two small stateful objects, which a *host* drives. What can go wrong is
therefore between the calls: the order in which the host makes them, how the
network cuts, repeats and reorders what the host hands over, and what a call
that failed half-way leaves in an object or a file.

| Part (in `crates/trlib-core/src` unless said) | State | Operations | What makes it correct | Modules |
|---|---|---|---|---|
| Message ids, `mtproto/message_id.rs` | 32 sorted identifiers and a count, in memory only | `validate_message_id`, `MessageIdWindow::insert` | no identifier accepted twice; a fresh one refused only when 32 newer ones were accepted; restarts and clock differences bounded by the time limits | `AtMostOnce`, `MessageIdWindow`, `ReplayGuard` |
| Framing, `transport/` | none | `decode`, `encode` of two codecs | an answer does not depend on how TCP cut the stream; never waits for bytes that do not come; what one end encodes the other decodes | `Framing` |
| Envelopes, `mtproto/envelope.rs`, `outbound.rs` | none | `parse_external`, `parse_decrypted`, `encrypted_packet_len`, `encode_encrypted` | both ends agree on lengths, padding and limits | `Envelope` |
| Gateway, `gateway.rs` | none; the host keeps the receive buffer | `poll` | frames come out whole, once, in order; only a bad frame ends the connection | `GatewayStream`, `FrameChannel` |
| Authorization key, `auth_key.rs` | nonces, g_a, key, server time, a state 0..3 | `new`, `write_req_pq`, `accept_res_pq`, `accept_server_dh`, `finish` | client and server agree on the key; a failed call leaves nothing behind that a later one would use | `AuthKeyHandshake` |
| Service objects, `service.rs` | the container's cursor and count | `parse_service`, `next_message`, `finish`, `LongVector::get`, `parse_message_update` | entries are what the bytes say, all of them; fields are where the schema puts them | `MessageContainer`, `ServiceObjects` |
| Session crypto, `crypto.rs` | the caller's buffer, two chaining registers | `seal`, `open` | `open` undoes `seal`, takes nothing else, leaves no unverified plaintext | `SessionCrypto` |
| Session document, `session.rs` | the caller's scratch buffer | `seal`, `open` | a text opens exactly if it is one whole document sealed under that key | `SessionDocument` |
| Session file, `session.rs` | a file | `file::save`, `file::load` | what was saved survives; a load gives what the file was at one moment, or an error | `SessionFile` |
| PQ factorization, `auth_key.rs` | the walk and its constant | `factor_pq` | every product of two primes is split, whatever the nonce | `PqFactor` |
| API, `api.rs` | none | request writers, `parse_auth_response`, `UpdatesState` | fields come out under the schema's names | `AuthResponse` |
| TL cursor and writer, `tl/cursor.rs`, `tl/writer.rs` | position | reads, writes | canonical encoding both ways; a failed write leaves a beginning of the right bytes | `TlBytes` |
| Schema serializer, `tl/schema.rs` | none | `serialize` | flags words agree with the fields written | `SchemaSerializer` |
| Schema generator, `tools/tl-prefix-gen`, and its output, `generated.rs` | namespaces, section; tables | `parse_schema`, `parse_fields`, `write_namespace_module`; `find_method`, `lookup_schema` | the tables answer for exactly the schema a build links | `SchemaGenerator` |
| Build, `tools/trlib-build`, `Cargo.toml`, `config.rs`, `lib.rs` | the configuration, the features | `parse_config`, `selected_features`, Cargo; `CompiledFeatures` | every configuration builds, links what it asks for and reports it | `BuildProfile` |
| Login probe, `tools/tg-test-login` | the connection, the call it is at | handshake, then sendCode, signIn, getMe | reports what happened; takes each call's own answer; ends | `LoginProbe` |
| Other tools | sockets, files | data-centre probe, size probe | | not modelled |

Interaction is by calls only: the host feeds the bytes of a socket to
`CoreGateway::poll`, which calls a codec's `decode` and `parse_external`; hands
plain bodies to `AuthKeyHandshake` or decrypts and hands them to
`parse_decrypted` and `parse_service`; offers message identifiers to
`validate_message_id` and the window; and stores the handshake's material with
`session::file`. There is no callback except `RandomSource::fill` and the
crypto trait, both of which may fail.

## The modules

**MessageIdWindow** has the array `ids` and the count `used` of the source; the
four exits of `insert` are its four actions, and the sort is part of the two
that need it. `sort_unstable` is any ascending rearrangement. Two history
variables record what was accepted and the last answer. **AtMostOnce** is what
a window promises, over a plain set; the window implements it with the identity
mapping. **ReplayGuard** extends the window by a host's receive path: two
clocks that drift, a server that numbers by its own, a network from which any
sent identifier may arrive at any time and again, `validate_message_id` with
its two limits, and restarts with a new window (nothing in the library persists
one).

**Framing** and **Envelope** are operators, byte for byte and with the error
kinds of the code. **GatewayStream** is a connection: `wire` holds what the
peer wrote, `Arrive` moves a byte (so segments of every size arise), and the
host polls its `buffer` as `README.md` shows in "Zero-copy gateway": on
`NeedMore(total)` it waits for that many bytes (or polls earlier), on an event
it discards `consumed`, on an error it gives the connection up. `poll` is
stateless, so a call is one step. The stream of the last `n` frames is a
recursive function, `LastFrames`, so that it can be reasoned about.
**FrameChannel** is the abstract channel: the
next frame is delivered if acceptable, or the connection fails at it.

**AuthKeyHandshake** has the fields of the object that outlive a call. Each
method is an action for its success and an action per group of error exits that
leave the object changed (`FailResPq`: `server_nonce` replaced;
`FailServerDhChecks`: `server_time` replaced; `FailServerDhLate`: exponent or key
left in `auth_key`). Exits that change nothing are stuttering steps. Around it:
the host, which retransmits its last body, hands over any message at any time
and may start over; a network that repeats and loses; a server that answers
requests twice, with unusable or damaged answers, with `dh_gen_retry` and
`dh_gen_fail`. Cryptography is symbolic.

**MessageContainer** reads words of 32 bits: `Parse`, the four exits of
`next_message`, `Finish`. The caller may go on after an error. What a sender
packs is a FlattenSeq over the entries.

**SessionFile** splits `save` into seal, create, the writes of `write_all` and
`sync_all`, and `load` into open, reads and the final check, because other
processes and a crash may come between any two system calls. The document's
authentication is "all pieces carry the same number". After a crash an unsynced
file has any length, and every piece of it is a hole, the synced or a later
one. Every call of either may fail. Two histories follow the current load: `wholes`,
the documents that lay in the file whole at some moment of it, and `apart`, whether
the saves it met kept from overlapping one another.

**SessionCrypto** runs one call of `seal` or `open` block by block in the
caller's buffer, with the two registers of the IGE loop; `open` compares the
message key when the whole buffer is decrypted. Blocks, XOR, cipher, hash and
the derivation of keys are parameters with assumptions. What a receiver is given
may be a packet as it was sealed, with one block replaced, of the other
direction, of another key, or a buffer that was opened before.

**SessionDocument** is the text on disk: a record of eleven fields, encoded in
order behind magic and version, encrypted in counter mode, authenticated, and
written in hexadecimal. HMAC is symbolic, so a tag names the key, the salt and
the ciphertext it was made from; the texts `open` is given are put together from
the parts of all documents sealed so far, or edited in one place, or misshapen.
The scratch buffer is what each exit of `open` leaves of it. `SessionFile` uses
of this only that a mixture does not open.

**PqFactor** is `factor_pq` round by round, with the largest limits of the code; only
its numbers are small. `Gcd` is the greatest common divisor by its definition, for
which the code has Euclid's loop (`auth_key.rs:497`).

**ServiceObjects** has the reads of every arm of `parse_service` and of
`parse_message_update` on one side, and the declarations of the schemas on the
other. A field is the place of its bytes in the body, which may be cut or
continued.

**SchemaGenerator** reads the lines of the schema files into namespaces and
writes sorted tables; the two searches are the binary searches of
`generated.rs`, namespace after namespace, in a build that compiles some of
them. The stable sort is given by what it does: an entry goes to the place that
its rank gives, the number of entries before it. The text is kept as a history
and says what the answers should be. Its assumptions are facts about the two
schema files that the generator does not check: `core.tl` declares nothing in a
namespace and nothing is in one called `core` (`NamesAssumption`); no flags word
is conditional or has the name of another one of its constructor, for
`parse_fields` takes the first of that name, and a constructor has fewer than
255 fields, for a word's number is a byte whose last value is `NO_FLAGS`
(`FieldsAssumption`). `Precedes` and `NamePrecedes` stand for the order of
strings, which TLA+ does not have.
**BuildProfile** takes a configuration file line by line, selects features as
`trlib-build` does, closes them under the manifest as Cargo does, and knows what
each `#[cfg]` compiles and what the compiled code refers to.

**AuthResponse** holds two descriptions of every login answer, the layout of
`schemas/telegram_api.tl` and the reads of `api.rs`, and a server that writes by
the first and a client that parses by the second. A field's value is its name,
so an exchange of two fields shows. The user and the terms of service at the end of
an `auth.authorization` are two items, the constructor and the rest: the code takes
what is left from the first four bytes on (`api.rs:1108`, `:1120`) and does not look
further.

**LoginProbe** is `tg-test-login` as one thread with a program counter: two
prompts, three plain exchanges (what the handshake makes of them is
`AuthKeyHandshake`'s subject; here it goes on or refuses), three encrypted calls.
`rpc_result_body` goes into containers inside containers; no frame of the model
nests deeper than two, and the search is unfolded that far.
The body of `encrypted_call`'s loop is an action per outcome, and so is what
`run` does with each call's result. The server answers requests in order, packs
answers alone or into containers, resends them (the probe acknowledges nothing)
and sends frames of its own; a bad frame may come at any time.

**SchemaSerializer** writes tokens, one per TL value, in the two passes of
`serialize`, and reads them with a reader that knows a schema and TL's rules, and
nothing of the code. Both, and what the caller means by its values (`Meant`), are
recursive functions: writing goes down the objects in an object, reading goes from
place to place with one level of the text at a time. The schema, the vector types
and the objects a caller puts together are constants; two named assumptions say
what holds of any schema and of the constructors that `schema.rs` writes by
number, and one that values have their fields' types (`write_value` takes others
too, and writes what no reader of that field expects; choosing them is the
caller's). Out of the model is a `Raw` body, for which the caller vouches.

**TlBytes** has the bytes: `write_bytes` piece by piece into a buffer of any size,
`read_bytes` with an action per exit. A byte has `Long + 2` values, so that the marker and the invalid
first byte are the two highest, as 254 and 255 are.

**MCReceivedObjects**, **MCBuild** and **MCCryptography** put several of
these modules into one instance each (by EXTENDS where theorems speak of the
module, by INSTANCE otherwise): an initial state chooses a subject, and the
variables of the others stay in a fixed first state. The subjects share no
variable and no code, so one run of all is the same as a run of each; they are
grouped by what they are about (the parsers of decrypted bodies, the way from
schema and configuration to a binary, the uses of cryptography).

`AuthResponse` uses RECURSIVE operators and is used by no theorem.

Definitions marked "Mutant" are variants of the one below them with a plausible
bug; no specification uses them. `PROJECT.json` says which property rejects
which.

## The runs

| Run | Bounds | States | Shows |
|---|---|---|---|
| `message_id_window` | window of 3, identifiers 0..6 | 900 | content, no replay; refinement of `AtMostOnce` |
| `replay_guard` | window of 2, 4 seconds of 4 ticks, limits 1 s, skew 1, 3 messages, 4 deliveries, 1 restart | 1.1 M | duplicates only across a restart and within the past limit; honest messages in time are not lost; expired ones stay out |
| `gateway_stream` | intermediate: scripts of 1 or 2 frames from 4 good and 5 bad; abridged: pairs of frames with lengths on both sides of 127 words | 51 k | refinement of `FrameChannel` with its liveness; `NeedMore` is always reachable |
| `auth_key_handshake` | 2 handshakes, 4 faults | 115 k | agreement, no left-over secrets used, one exponent per session, termination |
| `session_file` | 2 savers, documents of 2 pieces, 4 documents, 1 crash, 2 loads | 1.1 M | saved documents survive; a load returns one moment of the file |
| `received_objects` | session documents: 2 seals, 3 calls; containers of up to 9 words of {0, 4, 6}, counts 0..4, limit 3; TL bytes of 2 bits, values of 0..7, 63 and 64 bytes, buffers of 0..24 and 100, every input of up to 8; every login answer but one combination of flags; every service object with up to 3 elements and up to 9 bytes too few or too many | 1.1 M | what is parsed is what was written, whole, field by field; what was spliced or edited is refused, and what was cut or continued too, up to an opaque last field |
| `authorization_fields` | the combination left out above | - | finding 1 |
| `login_probe` | calls of 3 frames, 3 frames beside the answers, 1 resent answer, containers of 2 | 92 k | reported logins and profiles happened; own answers; answers in reach are taken; the program ends |
| `schema_serializer` | 11 constructors, every list of fitting values, cut short and one too long, with objects in objects in objects | 4 k | what is written is read back; exactly the complete lists are written |
| `schema_shared_bit` | `account.initTakeoutSession` | - | finding 2 |
| `cryptography` | 2 keys, buffers of up to 3 blocks of 2 bits, 3 calls; the products of two odd primes up to 200, all 256 first bytes of a nonce | 388 k | the cipher opens what was sealed and nothing else, and wipes what it cannot verify; every product is split |
| `build` | every file of up to 3 lines, 6 namespaces; schemas of 2 and 4 lines, every build of 4 features | 585 k | lookups are exact; every configuration builds, links what was asked and says so |

Why the bounds are enough. The window fills, evicts, evicts what it had just
taken, and meets identifiers below, inside and above its range with 3 slots and
7 identifiers; its proofs are for every size. In `replay_guard` a message can
expire, arrive early, be pushed out of a window of two, and return after a
restart, in one behaviour. The gateway's state after an event depends on the
stream alone, so two frames meet each other in every way: the second begins
inside or after the segment that completes the first. The frame lengths are
chosen at the limits: a body of exactly `max_message_bytes`, a payload of
exactly `max_frame_bytes`, one block more, 126, 127 and 128 words. Two
handshakes suffice for an answer to an earlier one to arrive in a later one,
and four faults for a repeated session, a damaged answer, a failed call and a
restart together. Two pieces are enough for a mixed document and for
a load with saves between its reads; four documents for the one that was there, one
that is cut short, one that is written over it, and one more.

Two sealed documents make every splice there is, with one salt or two, one key
or two, and one of them of another version; three calls are two seals and what
is then opened. Nine container words hold two entries with a word of body
and one trailing word, or an entry whose declared length reaches into the next
one; the count's width (`Modulus`) is four, so a count of four would wrap to
zero if it were not limited first. With a marker of 2, lengths of 0 and 1 are
short, 2 to 63 long, and eight bytes hold two values or a long one with any
padding. Nine bytes too few cut every service object inside each of its last
fields. A call of
three frames can be given up, or saved by its last frame; two other frames may
stay unread for the next call. The eleven methods have bare and conditional
fields, both at either end, vectors, objects in objects and a second flags word.

Three blocks have a first, an inner and a last one for the IGE chain. In
`factor_pq` a walk modulo a number below 200 repeats itself long before the
bound of 200 rounds, and small numbers are the hard ones: attempts that find the
number itself, or fall into a cycle, are frequent among them, while the real pq
has 63 bits and meets them seldom. Its intermediate values stay below 2^64, so
width plays no part; `MaxFactor` is chosen so that some factors exceed it. Three
lines of a configuration can set a namespace, unset it, and change `api`, in any
order; the six namespaces are those `api.rs` needs and one it does not. Four
lines of a schema hold a section, a declaration, another section and a second
declaration; identifiers and names have different orders, and one identifier
occurs in two namespaces.

Deadlock is not checked where a system may stop: a script that ended, a
connection that failed, a finished handshake or parse, bounds reached.

Fairness. `GatewayStream`: bytes the peer wrote arrive (TCP), and a host with
the bytes it was told to wait for polls. Early polls are free. `AuthKeyHandshake`:
the host transmits and hands over what it received, and the server answers, as
long as no fault intervenes; faults are never obliged. That the object itself
needs no fairness follows from its having no threads. `LoginProbe`: the program
goes on whenever it can, which includes its read timeout, and the user answers a
prompt or ends the input; the server owes nothing. Everything else is safety.

What a host must know, and the models make explicit:

- a saved document is only as safe as its save was alone; overlapping saves may
  leave a file that no load accepts, and `save` destroys the old document before
  the new one is on disk (`README.md` leaves locking and atomic replacement to
  the host). `SavedSurvives` therefore speaks of a save no other overlapped and
  only until the next save opens the file. Nor is the directory synced: a crash
  after the first save of a path may take the file.
- `load` takes no lock either. With one save at a time it still returns a document
  that was the file's content at one moment of the load, however often it is
  rewritten meanwhile (`LoadIsAtomic`). With two saves at once it may not: one writes
  its first piece, the load reads it, the other truncates the file, the first writes
  its second piece at its own offset, and the load returns a document that the
  file never held whole.
- an `auth.authorization` cut inside its user, or with bytes behind it, is accepted:
  the user is the caller's to parse, and to find short. The fields before it are as
  they were sent (`DamagedRefused`).
- a restart loses the replay window: a repeat is then accepted once more, up to
  `PastLimit` after the message was numbered.
- after `dh_gen_retry` the object is at a dead end; the host has to start over.
  `Ends` counts it as an end.
- a poll that fails reports no consumed length: the connection is over.
- `seal` and `open` of a session document leave their scratch buffer as they
  stopped: ciphertext, or zeros after a failed authentication.
- a session document written with a salt twice still opens only whole; but the
  key stream is then the same, so the salt has to be fresh for secrecy, which is
  not modelled.

### Findings

1. `authorization_fields`: `parse_authorization_after_id` reads `tmp_sessions`
   before `otherwise_relogin_days`; the schema declares them the other way round,
   so that with both present each gets the other's value.
2. `schema_shared_bit`: where the schema puts two fields on one flag bit,
   `serialize` sets the bit for either and writes only those given.
   `account.initTakeoutSession` with `files` set and `file_max_size` skipped
   announces a number that is not there, though `schema.rs:69` says that a
   `True`/`Skip` pair can never produce an invalid body. The vendored schema has 98
   such bits, 31 of them shared with a `true`.

Disagreements of code and comment that reading showed and no run repeats:

- `poll` returns `ErrorKind::NeedMore` for a complete frame whose payload is
  shorter than an envelope (Telegram's 4-byte transport errors, for one), while
  `error.rs:12` documents the kind as "More input bytes are required." A host must
  treat every *error* of `poll` as final; `ImplementsFrameChannel` is checked with
  one that does.
- `MessageContainer::finish` accepts a container whose last declared entry was
  never there, because `next_message` counts an entry before it reads it; the
  caller saw that entry's error. `service.rs:89` promises that all declared entries
  were consumed. `CompleteMeansWhole` therefore speaks of error-free reads.
- `serialize` takes fewer values than there are fields, the missing ones as
  skipped; `schema.rs:118` says that the numbers must match.
- `GatewayConfig::strict_tl_padding` (`config.rs:16`) is never read; padding is
  always checked.
- `CompiledFeatures::API` is "Selected client API method bindings are linked"
  (`config.rs:59`), and the README calls the bits the "exact linked feature
  bitset"; the bit is unset when namespaces were selected one by one, or came with
  `auth`. `BitsReportWhatIsCompiled` claims it one way only.
- `README.md:77` says that `auth` enables `api`; the manifest has it enable four
  namespaces. In the other direction, a namespace set to false "drops" it "from the
  build entirely" (`trlib.conf`), but not `account`, `auth`, `updates` or `users`
  while `auth` is true. `NamespacesAsAsked` says what is linked.
- `std = false` with `session_file = true` links `std` all the same.
- `tl-prefix-gen` truncates its output file before it parses a schema, so a bad
  schema leaves an empty `generated.rs`. It does not notice two declarations with
  one identifier; within a namespace the search then finds either.

## The theorems

TLAPS proves the following for every value of the constants, under the
assumptions named in each module. Of the properties that the passing runs check,
all but the three listed at the end of this section are theorems.

`ReplayGuardProofs` begins with the window, for every `Capacity >= 1` and every
set of natural numbers as identifiers: type correctness, `StrictlySorted`,
`WindowIsNewest`, `NoReplay` and the refinement of `AtMostOnce`. The three
invariants are not inductive one by one: that evicting `ids[1]` forgets the
*oldest* identifier needs the order, that the order is strict needs the duplicate
check to see everything tracked, and that a refusal is justified needs the
content. The inductive invariant `IInv` is their conjunction with what the prefix
of the array means; lemmas say what a sorting keeps (the same entries, in order,
each once). `NoReplay` follows from `WindowIsNewest`: an identifier that was
accepted and is not tracked is below the window, where the full window refuses
it. The refinement needs, in addition, that the number of accepted identifiers
newer than a given one is less than `Capacity` exactly when the window would take
it.

Then the receive path, with the window's invariant and lemmas, for every run of
the host begins with a new window. It adds that whatever this run delivered the
window accepted (`DeliveredThisRun`) and that what expired stays expired because
clocks do not go back (`ExpiredForGood`). From these follow
`ReplayOnlyAcrossRestart`, `NoHonestLoss` and `ExpiredStaysOut` for every capacity,
limits, skew and number of messages and restarts.

`GatewayProofs` proves of both codecs, for every input, limit and continuation:
`DecodeSound` (bounds), `DecodeStable` (an answer stays), `RoundTrip` (encode then
decode, with anything behind it), `PartialFrameAsks` (an incomplete frame asks for
at least one byte more and at most for the frame), and of the envelopes
`SealedIsAccepted` (every length the sender admits passes the receiver's checks).
They rest on nothing but that a byte is 0..255.

From them follow the two results about the connection, for scripts of any length.
The invariant `StreamInv` says that the bytes in the buffer and on the wire are
those of the frames not yet handed over (`LastFrames[Remaining]`). An event
therefore takes exactly the next frame's bytes off the front, and `NeedMore` never
asks for more than the next frame has: `NeedIsReachable`. `DeliversTheScript`
states that every step is a step of `FrameChannel` or a stutter, which is the
safety part of `ImplementsFrameChannel`. That `LastFrames` exists at all, and so
has the value its definition says, is proved by induction; the library's induction
theorem cannot be instantiated, but the principle that a set of naturals has a
least element can be, with a set in place of an operator (`LeastNatural`).

`LoginProbeProofs`, for any number of frames, entries, resent answers and frames
beside the answers. No line of the probe checks what the properties rest on: a
result in the connection, however it is packed, is what the server answered to the
call it names (`ResultsKnown`), and no step is reached before the one behind it
was answered, for nothing else that may arrive lets the probe go on (`Later`,
`Awaited`, `PlainArrives`). Then a success that was printed happened
(`LoginIsGranted`), and as long as the server resends nothing, at most one result
is on its way, the one for the call that waits (`OnlyOwn`, `TakesOwnAnswer`).

`AuthKeyHandshakeProofs`: agreement of the keys is about the two ends, but every
step towards it is a body that may arrive at any later time. `IInv` says what a
body in transit is worth (`WellFormed`), that a session of the running handshake
is undecided until an exponent was sent (`Undecided`, `FreshExponent`), and what
the object holds while it waits (`Awaiting`). All four safety invariants follow,
for any number of handshakes and faults.

`ReceivedObjectsProofs` has four subjects.

Containers and TL bytes: packing entries and encoding values are FlattenSeq of a
mapped sequence. Its definition by a recursive function is unfolded by induction
(`FlattenAppend`: one more element appends its words; `FlattenSplit`: a beginning
of the list gives a beginning of the words). For a container, `Accounted` says that
entries handed out, failed calls and the counter add up to the declared count; it
and `ReadsWhatWasPacked` are inductive, and `CompleteMeansWhole` follows
(`ContainerReads`, `ContainerComplete`; `ContainersAssumption`: the limit fits the
counter, both being u16). For TL bytes, a length in the long form goes through
three digits to the base, which are all below the base and determine it
(`NumberOfDigits`, `DigitsOfNumber`, from the uniqueness of quotient and
remainder). `ReadTakes` says that what a read of any buffer accepts is the encoding
of the value it gives, which makes `Canonical` inductive; `ReadBack` that where an
encoding stands, the read takes its value and no failing exit is enabled. With
`BytesIInv`, which adds that the buffer is the encoding of what was asked and the
values read are its beginning, follow `BytesPrefix`, `BytesReadBack` and
`BytesCanonical`, for values of every length, every capacity and every buffer
(`BytesAssumption`: types only).

Session documents: an authentic text carries the tag of a sealed document
(`ArrivingTags`); as HMAC is symbolic, the tag fixes key, salt and ciphertext
(`TagsDiffer`); counter mode undoes itself if XOR does (`CtrUndoesItself`), and
`parse_record` undoes `encode_record` (`RecordRoundTrip`). Hence a text opens
exactly if it is one of those sealed, for every cipher, key and salt
(`DocumentAssumption`, `StreamAssumption`: XOR undoes itself, a cipher makes blocks).

The session file, for any number of savers, pieces, documents, crashes and loads
(`BoundsAssumption`: types and signs): a save that met no other is the only one that writes, and the file is what
it has written (`AloneWrites`); a completed one rests in the file and on the disk
(`SavedRests`); what a load has read so far is a beginning of what lies there, as
long as nothing opened the file (`LoadFollows`). If saves did open it, one at a time,
what was read so far of one document is worth one of three things
(`ReadsOneMoment`): that document was in the file whole since the load began, or its
save is still writing and everything read is still there, or nobody writes it any
more and a piece that is still to be read is missing. The load ends well only in the
first two, which gives `LoadsAreAtomic`. The third needs that a save writes no
number but its own and that a new document gets a new one (`PiecesAreSealed`).

`SerializerProofs`, for every schema and all the objects a caller can put together
(`SchemaAssumption`, `KnownObjectsAssumption`, `ObjectsAssumption`, which ask no
more than the code needs; `serialize` has room for three flags words in a
constructor, `schema.rs:125`, and panics on a fourth). `AlwaysGivenIsWritten`: a request is written exactly if
its values are enough, not too many, and the objects among them are written. It
needs the count of fields that take a value to number them without gaps
(`CountingSteps`, `CountingReaches`). `RequestsReadBack`: what is written reads back
as it was meant. That values fit is not enough: fields on one flag bit have to be
given together, and the theorem says so as a hypothesis (`SharedBitsAgree`; finding
2 is the body that results without it). The recursive functions are shown to have
the values their definitions say, one level of nesting after the other
(`SerializeIs`, `MeantIs`, `ReadingsAre`), and the induction then is over how deep
an object is nested. Within an object, `Encodes` is what has to hold of a part:
wherever it stands in a text, the reader takes it for its meaning and goes on
behind it. `ValueEncodes` shows it of each kind of value, narrowed numbers
(`LowBitsAre`) and vectors of any length among them; `PartsAreRead` carries it
along the fields, each flags word telling, by `BitIsSet`, which fields follow.

`CryptographyProofs` has two subjects. The session cipher: the invariant follows
the registers through both loops, so that after `n` blocks of `open` the first `n`
are the sealed text, whatever the cipher is (`CipherAssumption`: it can be
inverted; `HashAssumption`: message keys of different texts differ;
`MaterialAssumption`: types). `OpensWhatWasSealed`, `AcceptsOnlySealed` and
`NothingUnverified` follow.

The factorization, for all numbers, seeds and limits (`NumbersAssumption`: types
only): what `factor_pq` returns for a product of two different primes are these two
primes, the smaller one first, wherever its walk went (`FactorsAreThePrimes`). The
invariant says that `divisor` divides `pq`, as a greatest common divisor with `pq`
does (`GcdDivides`). A divisor that is neither 1 nor `pq` is then one of
the primes, by Euclid's lemma (`PrimeDividesFactor`), which the installed library
does not have: it is proved from the least positive number that a prime multiplies
to a multiple of the other factor. That the walk does find a divisor is
`SplitsEveryProduct` and stays with TLC: it depends on the numbers met on the way,
and nothing in the code guarantees it beyond trying other constants.

`BuildProofs`, first the generator, for every list of schema files, every schema
and every build. The invariant relates the namespaces to the text read: every
entry records a declaration of its namespace and kind, every declaration has its
entry, and a namespace is gated exactly if one of its declarations is not from
`core.tl`. Sorting by rank
permutes the entries into order; the place that a binary search finds in a sorted
table is the first that is not below what is sought; and the namespaces are asked
in their order, so the first that has the identifier answers. From these
`SearchesAreExact`: both searches answer exactly for the declarations that the
build links. `FlagsWordsAreFound`: the number a conditional field carries is that
of the word it names, because the numbers of the words before it are distinct.

Then the configuration, for every set of namespaces that has the five the library
names (`NamespacesAssumption`) and files of any length: the linked features are
closed under the manifest, because no chain of implications is longer than three
(`ShortChains`), so nothing compiled refers to something left out; and the maps the
parser builds say of every key what its last line says.

Only model-checked: liveness (`Ends`, `AnswerInReachIsTaken`, the fairness part of
`ImplementsFrameChannel`), which TLAPS cannot do; and three properties beside it.
The part of `FieldsBySchema` and `DamagedRefused` that is about `AuthResponse` is
about RECURSIVE operators, for which the prover loses its arithmetic; the other part
is a comparison of two fixed tables, of `ServiceObjects`, where TLC meets every row.
`SplitsEveryProduct` of `PqFactor` is true of the numbers tried and not of all numbers.

## Not modelled

- `generated.rs` beyond its two functions: 34 000 of the implementation's 41 000
  lines are table rows. What the rows must be is `SchemaGenerator`'s subject;
  transcribing them would repeat the schema.
- The arithmetic of cryptography: AES, SHA, HMAC, PBKDF2, RSA padding and the
  Diffie-Hellman range checks are symbols or parameters, and constant time and the
  wiping of memory that is no longer reachable are left out.
- The request writers of `api.rs`, `UpdatesState` and `RpcError::migration_dc`:
  straight-line writes and reads. A request's conditional fields are
  `SchemaSerializer`'s subject.
- `aes_ige_encrypt_raw` and `aes_ige_decrypt_raw`: the loops of `SessionCrypto` on a
  key and vector the handshake derives, without a message key.
- The data-centre probe and the size probe: scripts without state of their own.
- Error offsets and details. Running out of output space appears only where it
  leaves something changed.

## Plan

Done, in this order: the replay window and its proofs, the receive path, framing
and gateway, the handshake, the container, the session file, login answers, the
login probe, the schema serializer, TL bytes; the session cipher, service objects,
the build profile and the schema generator; proofs of receive path, handshake,
session file, cipher and build; session documents with their proof, PQ
factorization; proofs of the gateway's invariant and of the safety part of its
refinement, of the login probe, the schema generator, the container and TL bytes;
the factorization's answers, and the serializer, rewritten with recursive functions
and proved.

Left:

1. Message identifiers from a clock that may stand still or go back, in
   `LoginProbe`, with a server that refuses identifiers out of order.
2. RSA padding's retry loop, and the group checks of `accept_server_dh` over a
   small group.
3. The login answers' recursion as recursive functions, so that their properties
   can be proved; and the service objects' fields for every `MaxVector`.
