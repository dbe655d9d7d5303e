# TLA+ models of the vrpn-rs wire protocol core

This directory holds TLA+ models of the Rust VRPN protocol crate whose
sources are under `src/src/`. The specification is `spec.md`. Each module
is a translation of the code it names. `PROJECT.json` records which
definition models which lines, which runs check what, and the hazards the
properties target.

## 1. Inventory of the system

| Component | Code | State | Operations |
|---|---|---|---|
| WireCodec framing | `message.rs` | none (pure sizes); a frame is the bytes of one `SequencedMessage<GenericBody>` | `compute_padding`, `padded`, `MessageSize::{from_*, length_field, padded_*, body_padding}`; `Buffer::buffer_ref` (encode, may fail `OutOfBuffer`); `Unbuffer::unbuffer_ref` (decode, may fail `NeedMoreData`); `try_from_generic` / `try_into_generic` (generic ↔ typed body) |
| Primitive serde codec | `ser.rs`, `de.rs` | `Serializer.output` (a growing `BytesMut`); `Deserializer.input` (a `Buf` being consumed) | `serialize_*` of each primitive (big-endian `put_*_be`), `bool` as `i16`; struct/tuple/seq walk the fields; `from_buf` = deserialize, then `TrailingCharacters` if bytes remain; `parse`/`peek` with `check_size` (`NeedMoreData(AtLeast)`); every other shape is `unimplemented!()` |
| ID types | `types.rs` | none | `is_system_message` (id < 0), `id_filter_matches`, `determine_id_range` (BelowZero / InArray / AboveArray), `LocalId`/`RemoteId` tags |
| Translation tables and dispatcher | not under `src/` (spec 4.3, 4.4); `connection_ip.rs` delegates to it | per category: a dense append-only table of (name, remote id); the handler registry | `add_type`, `add_sender`, `get_type_id`, `get_sender_id`; remote binding from description messages; `route` |
| ConnectionIP | `connection_ip.rs` | dispatcher, log names, `endpoints: Vec<Option<EndpointIP>>` | `new_server` (no endpoint), `new_client` (one endpoint), name registration and lookup |
| EndpointFile | `async_io/endpoint_file.rs` | translation tables, framed file, a system-message channel | `new` (reads and checks the file cookie, blocking), `send_system_change` and `buffer_generic_message` (both `unimplemented!()`) |
| Ping client driver | `async_io/ping.rs` | the raw ping client (not under `src/`), a 1 s `Interval` | `poll_next`: wait for a tick, then `check_ping_cycle`; report the silence if it returns one |
| Async read helpers | `vrpn_async_std/mod.rs` | a `BytesMut` (length, capacity) | `read_into_bytes_mut`, `read_n_into_bytes_mut`, `BytesMutReader::{read_from, take_contents, give_back_contents}`, `read_cookie` |

How they interact: the transport delivers bytes; after the cookie
handshake the codec cuts them into frames with `unbuffer_ref`; the
connection translates the remote sender and type ids into local ones with
the endpoint's tables and the dispatcher routes the message; a handler
turns the generic body into a typed body with the serde codec. Outbound
is the mirror image: a typed body is serialized, given a sequence
number, buffered by the endpoint and written with `buffer_ref`. The ping
driver runs on a timer beside this and sends and receives system
messages through the same path.

What is hard here:

- **Byte-stream boundaries.** The transport cuts frames at any byte. The
  decoder has to report the exact shortfall and be retried from an
  untouched buffer. `unbuffer_ref` itself consumes bytes before it fails.
- **Arithmetic at the edges.** The code computes sizes in `usize` from an
  untrusted `u32` length field. A field below 24 underflows. Padding is
  zero for bodies whose length is a multiple of 8.
- **Finite buffers.** `buffer_ref` refuses a frame that does not fit, so the
  caller has to drain and retry.
- **Two ends of one encoding.** The serializer and the deserializer are
  written separately, so every primitive has to agree in width.
- **Ordering across peers.** A description message must be processed
  before any message that uses its id (spec 4.5).
- **Timers racing replies.** The ping tick races the pong.

Properties that make each part correct:

- Framing: sizes agree with the C++ reference. Decoding undoes encoding
  whatever the cuts. `NeedMoreData` names the exact missing bytes. Every
  buffered frame is eventually decoded. No input from the peer makes the
  decoder panic, and no length beyond a sane maximum is accepted.
- Serde: serializing then deserializing a struct gives it back. A short
  input reports its shortfall. A long one reports `TrailingCharacters`.
- Translation: a name has one local id and ids are dense. A translated
  message carries the local ids of the sender and type names the sender
  meant. A message is never routed to a handler of another sender or
  type. A user message sent on the reliable channel after its names
  were announced reaches a handler unless the peer hangs.
- Ping: the monitor's one slot matches the pings and pongs in flight. A
  live peer's pings are always answered. A peer that stops answering is
  eventually reported on every tick. A report while the pong is still
  on its way is allowed: the threshold is a latency bound, not a proof
  of failure.
- Read helpers: a read appends the bytes read and keeps the bytes already
  buffered.

## 2. Plan

Modules are listed in build order. The most central behaviour comes first.

1. `MessageSize` (done). The pure size arithmetic. `MCMessageSize`
   checks it against the reference transcribed in the tests.
2. `Primitives` (done). Big-endian put/get and `check_size`.
3. `FrameCodec` (done). Sender, transport and receiver of framed
   messages. `FrameCodecFaultyPeer` (done) extends it with a peer that
   writes bad length fields: too small, and implausibly large.
4. `SerdeCodec` (done). The `Serializer` (`to_bytes`) and the
   `Deserializer` (`from_buf`) as recursive operators over a value tree.
   A round-trip run over primitives, unit and newtypes, and a violation
   run for `bool` and for structs, tuples and tuple structs.
   `TypedMessage` (done) adds `try_into_generic` and `try_from_generic`
   of `message.rs` over a fixed-layout typed body.
5. `IdTranslation` and `PeerNames` (done). Spec-modelled dispatcher and
   endpoint tables for sender and type ids between two peers, using
   `determine_id_range`, `id_filter_matches`, `is_system_message`,
   `description_type` and `ClassOfService` of `types.rs` and
   `add_sender`/`add_type`/`get_sender_id`/`get_type_id` of
   `ConnectionIP`. Two
   channels: reliable (descriptions and reliable messages) and datagram.
   The tables are shown to implement the abstract `PeerNames` through
   `INSTANCE ... WITH`.
6. `Connection` (done). `IdTranslation` composed with the ping client
   of `ping.rs`: its `Interval` tick drives `check_ping_cycle`
   (spec 4.7); pings are queued on the reliable channel behind A's other
   traffic (spec 5) and pongs come back on a channel B -> A. B may hang
   for good. The classes of service a connection's user messages carry
   are chosen per behaviour.
7. `EndpointFile` is not modelled; see section 5.
8. `ReadBuffer` (done). `BytesMut` as (contents, capacity) with `split`,
   `unsplit`, `reserve` and `extend_from_slice`, and the read helpers over
   a stream that returns up to the slice length. This gives a violation
   run for the zero-length read of `read_into_bytes_mut` /
   `BytesMutReader::read_from`, and a passing run for
   `read_n_into_bytes_mut` / `read_cookie`.

## 3. Modules and how they correspond to the code

### MessageSize

This module has no variables. It defines the `MessageSize` functions of
`message.rs`, each under the code's own name. A `MessageSize` is its
`unpadded_body_size`.

- Arithmetic is `usize`, which a release build wraps modulo `UsizeMod`.
- `length_field()` is cast to `u32`, modulo `U32Mod`.
- `FromLengthFieldUnderflows` says when the subtraction in
  `from_length_field` goes below zero. A debug build panics there.
- `transcribed_padding_function` is the test module's transcription of
  the C++ `marshall_message`.

TLC's integers are 32-bit. So the `MC` configurations use
`UsizeMod = 2^30` and `U32Mod = 2^24` in place of 2^64 and 2^32. Both are
multiples of `ALIGN` and much larger than any size the models produce.
Every comparison the code makes, and whether and how the arithmetic
wraps for a short length field, come out as they do at full width.

### Primitives

- `PutBE(v, w)` is `put_*_be`: two's complement, most significant byte
  first.
- `GetUnsignedBE` and `GetSignedBE` are `get_u*_be` and `get_i*_be`.
- `CheckSizeShortfall` is the `AtLeast` shortfall of
  `PrimitiveSerde::check_size`.

### FrameCodec

State:

- `next`: the next message of the constant `Msgs` to buffer.
- `outBuf`: the bytes `buffer_ref` wrote that the transport has not taken.
- `inBuf`: the receive buffer.
- `decoded`: the messages decoded so far.
- `encodeResult` and `decodeResult`: the last outcomes. `decodeResult`
  also records the buffer length at the attempt.

Actions:

- `BufferMessage` is `buffer_ref`. `Fits` is its `remaining_mut()` test
  against `padded_message_size()`. If the frame does not fit, the result
  is `OutOfBuffer` and nothing is written. Otherwise `EncodeFrame` is
  appended: length field, time, sender, type, sequence number, body,
  padding.
- `Transmit` is the transport. It moves any non-empty prefix of the
  written bytes to the receiver. This is an external collaborator, so it
  is not mapped.
- `Decode` is the codec calling `unbuffer_ref` on a copy of the receive
  buffer. That caller is not under `src/`; spec 4.1 describes it.
  `UnbufferFrame` follows `unbuffer_ref` step by step:
  1. A short length field gives `AtLeast`.
  2. `from_length_field` may underflow. A debug build panics.
  3. The expected remaining bytes are `padded_message_size() - 4`. If too
     few are present, the result is `Exactly` with the shortfall.
  4. The header fields are read one at a time.
  5. `split_to` of the body and of the padding panic past the end of the
     buffer.

  A success appends the message and drops the bytes it used. A panic
  stops the receiver.

`FrameCodecFaultyPeer` adds `PeerWritesBadFrame`: in place of a message,
the peer writes a header whose length field is in `BadLengthFields`.
`MaxBodySize` is spec 7's sane maximum body size: a decoder that keeps
to the spec refuses a frame declaring more, and never panics.

### SerdeCodec

A value is a record whose field `t` names its Rust shape: a primitive
with its integer (a float is its bit pattern), `bool`, `char`, `unit`,
`newtype` with `inner`, `seq`, `tuple`, `tuple_struct` or `struct` with
`fields`, `bytes`.

- `Ser` is the `ser::Serializer` impl: each `serialize_<prim>` is
  `PutBE` of the primitive's width; `serialize_bool` is `serialize_i16`
  of 1 or 0; unit writes nothing; a newtype writes its inner value;
  `serialize_tuple`, `serialize_tuple_struct` and `serialize_struct` go
  to `serialize_seq`, which writes no length; `SerElements` is the
  `serialize_element`/`serialize_field` calls of the compound
  serializers, each element written in turn; `serialize_char`, enums
  and maps are `unimplemented!()`, the outcome `SerPanic`.
- `De` is the `de::Deserializer` impl, driven by the shape the target
  type's `Deserialize` asks for: `Parse` is `check_size` then `get`;
  `deserialize_bool` parses a `u32` and compares it with 1;
  `deserialize_char` needs one byte (`Exactly(1)`); tuples, tuple
  structs and structs reach `deserialize_seq`, bytes reach
  `deserialize_bytes`, both
  `unimplemented!()` (`DePanic`).
- `from_buf` adds the `TrailingCharacters` check.

`MCSerdeCodec` has no steps: each initial state is a value and a cut,
and the invariants are the checks. `ScalarValues` holds every primitive
at its sign and width edges that TLC's 32-bit integers can hold (the
smallest `i8`, `i16` and `i32`, the largest unsigned of 8 and 16 bits,
bytes 128 and 255), unit, and newtypes around all of them.

### TypedMessage

`TypedMessage` extends `SerdeCodec` with the typed/generic conversions
of `message.rs`. A message is `from_header_and_body(header, body)`. A
typed body is a sequence of primitive fields. Its `Buffer` and
`Unbuffer` impls are not under `src/`, so `BufferFields` and
`UnbufferFields` follow spec 4.2: each field big-endian in turn, and
each read checks its size first, as `Deserializer::parse` does.

- `try_into_generic` buffers the body into fresh bytes. The room is
  reserved first, so `allocate_and_buffer` cannot fail.
- `make_sequenced_message_body_generic` does the same for a
  `SequencedMessage` (`into_sequenced_message`) and keeps its sequence
  number. `unbuffer_typed_message_body` is `try_from_generic`.
- `try_from_generic` unbuffers the body from a copy of the generic
  bytes. A shortfall becomes a parse error
  (`map_need_more_err_to_generic_parse_err`). Bytes left over are an
  error too (`OtherMessage`).

`MCSerdeCodec` checks it with a body of a `u8` followed by each scalar
value. The generic bytes lose up to 8 bytes at the end (`cut`) and gain
up to 2 (`extra`).

### ReadBuffer

A `BytesMut` is `[data, cap]`: its bytes and its capacity. The bytes
crate operations the helpers call are operators: `split` (`SplitHead`,
`SplitTail`), `clone`, `reserve` (the new capacity is any value from the
request to `ReserveSlack` more, as the allocator chooses),
`extend_from_slice` and `unsplit` (an empty `self` becomes `other`; an
`other` without capacity is dropped; adjacent views are joined;
otherwise the bytes are copied). A read into a slice of length `L` takes
1..`L` bytes off the stream, or 0 when `L` is 0.

- `read_into_bytes_mut`, `read_n_into_bytes_mut` (with `read_cookie`,
  called once before anything else is read) and `read_from` are actions
  that follow the code line by line, ending with their `assert_eq!`s
  (`Finish` records the helper whose assert failed in `panicked`).
- `take_contents` and `give_back_contents` move the reader's bytes out
  to the consumer and back.
- `Consume` is the frame decoder (not under `src/`) splitting a prefix
  off the bytes it holds.

`api` chooses, in the initial state, which client runs: one owning a
`BytesMut` ("fn") or one owning a `BytesMutReader` ("reader").

### IdTranslation and PeerNames

Two connections, A and B, and two categories of names, senders and
types (`Categories`). In each category A's dispatcher table
`aNames[c]` and B's `bNames[c]` are dense append-only sequences of names
(id = index - 1). B's endpoint table `bRemote[c]` maps A's ids to B's
ids (`None` until a description binds it).

- `add_sender` and `add_type` are `ConnectionIP::add_sender` and
  `add_type` on A for a new name. They only call the dispatcher, which
  appends the name; they send nothing. A name A already has returns its
  id and changes nothing, a stutter step, so the actions are guarded on
  a new name.
- `send_system_change(c)` is the description of the next registered,
  not yet announced name of category `c` (`description_type` of the
  category) going out on the reliable channel, as spec 4.5 asks of the
  endpoint. Nothing under `src/` makes this call: `ConnectionIP` holds
  its endpoints beside a dispatcher built without one
  (`connection_ip.rs` lines 17, 33, 49). The step is therefore separate
  from the registration and may come late or never. Names are
  announced in registration order; `announced[c]` counts them.
- `SendUser(n, t)` is a user message from a registered sender with a
  registered type (`get_sender_id` and `get_type_id` are `Some`) and one
  of the connection's classes of service `cos`. A class with the
  `Reliable` bit (`IsReliable`, a `Bitwise` test on the `ClassOfService`
  flags) puts it on the reliable channel `tcp`, otherwise on the
  datagram channel `udp`, which may lose it (`LoseDatagram`). Each
  channel keeps order.
- `RegisterHandler(t, n)` is B adding a type and a sender name, either
  of which may be a wildcard, and registering a handler whose filter is
  B's ids of them; the pairs come from `Subscriptions`, and a handler
  with both filters wild is there from the start.
- `ReceiveTcp` and `ReceiveUdp` take the next message of a channel and
  `Handle` it: a description (`is_system_message`) binds A's id of its
  category to B's id of the name, adding the name to B's table if new; a
  user message has both ids translated (`TranslatedIds`, with
  `determine_id_range` on each endpoint table) and is routed to every
  handler whose type and sender filters match (`id_filter_matches`). A
  message whose sender is unresolved is dropped (spec 7); one whose type
  is unresolved still reaches handlers with no type filter (spec 4.4).
- Each user message carries two ghost fields, which are not on the wire
  and which only the properties read: `meant`, the names A meant, and
  `wasAnnounced`, whether both ids had been announced when A sent it.
  A dropped message is recorded with its sender and `wasAnnounced`.

`PeerNames` is the abstract specification: the peer's dense numbering
(`Register`) and the bindings this side has learned (`Learn`), always
ones of the peer's. It is instantiated once per category
(`AbstractSenders`, `AbstractTypes`); the refinement mapping takes
`peer` to `aNames[c]` and `known` to the bindings B's endpoint table of
that category holds.

`cos` is chosen in the initial state from `CosChoices`. Both MC modules
offer {Reliable, LowLatency}: each user message takes `tcp` or `udp`.

Bounds: two sender and two type names, which the two sides may register
in either order, so the same name gets different ids on each side; one
user message; one subscription (type t1 from sender s2) besides the
wildcard. A larger set of subscriptions or a second user message grows
the composed state space past what the run can explore in minutes
(with every pair of filters subscribable, more than six million states), and adds no
new order of descriptions and user messages.

### Connection

`Connection` extends `IdTranslation` with A's ping client and B's
answers to it.

- `ConnInit` is `Client::new_impl`: a fresh one-second `Interval` and
  a monitor in `Idle`.
- `poll_next` is `Stream::poll_next`: the `Interval` is ready (the
  timer never ends), `check_ping_cycle` runs and its radio silence, if
  any, is printed (`reported`). Its two error returns are not modelled:
  the timer error that `map_err` converts (the timer fails only when its
  runtime shuts down) and a failed ping send that `?` passes on (the
  model's channels always accept a message). `check_ping_cycle` is not under `src/`
  and follows spec 4.7: from `Idle` a ping goes on `tcp` and the
  monitor is `Awaiting` with `elapsed = 0`; from `Awaiting` the tick is
  counted and reported once `elapsed > Threshold`. `elapsed` stops
  growing at `SilenceCap = Threshold + 1`, past which every tick reports
  alike.
- `BReceiveTcp` is B taking the next message of `tcp`: a ping is
  answered with a pong on `back`, anything else is `ReceiveTcp`.
  `BReceiveUdp` is `ReceiveUdp`. Both need `bAlive`.
- `APong` is A's receive task handing a pong to the monitor
  (`HandlePong`): back to `Idle`.
- `BHangs` is B stopping for good without closing A's side.

`AnnouncedUserMessageDelivered` says that a user message A put on `tcp`
after the descriptions of its sender and type were sent is eventually
delivered to some handler of B, unless B hangs. The premise is explicit
because no code under `src/` sends the descriptions. Given it, the
property leans on three things: the descriptions are ahead of the
message on the same channel, B's handling of them binds both ids, and
the translated ids pass the range checks and match the wildcard handler
(`id_filter_matches` with `None`). A message sent before its names were
announced is outside the premise; it is dropped, as the hazard at
`connection_ip.rs:81` records. The property is stated for one user
message, which is what `MCConnection` sends: with one message, "a
message on `tcp`" and "a message reached" are the same message.

Fairness: weak fairness on `poll_next` (the `Interval` ticks every
second), on `BReceiveTcp` (B's task polls its socket while it runs) and
on `APong` (A's receive task polls its socket). Sending, registering,
losing a datagram and hanging are choices of the application or the
network and carry none. Because the timer never stops the system never
deadlocks, and deadlock is checked.

Bounds: those of `IdTranslation`, and `Threshold = 1`: a report after
more than one tick of silence. Spec 8 (scenario 6) has a diagnostic at
3 s, but every order of tick, ping, pong and hang already occurs with a
threshold of 1. A larger one only lengthens the count. The checks
cover a tick while the ping is queued behind user messages, while the
pong is on its way back, a peer hanging with the ping or the pong in
flight, and a report while a pong is in flight.

## 4. Runs

| Run | Config | Checks | Result |
|---|---|---|---|
| `message_size` | `MCMessageSize.cfg` | `SizesMatchReference`, `FrameSizeRoundTrip` for every body length 0..300, in both builds | pass |
| `length_field_roundtrip_test` | `MCMessageSize_roundtrip.cfg` | `LengthFieldRoundTripFrom20`: the proptest's claim for 20..10000 | violation at 20 in a debug build |
| `length_field_truncation` | `MCMessageSize_truncation.cfg` | `FrameSizeRoundTrip` for body sizes `U32Mod - 40 .. U32Mod + 8` | violation at `U32Mod - 24`: the length field wraps to 0 |
| `frame_stream` | `MCFrameCodec.cfg` | `DecodedMatchesSent`, `NeedMoreIsExact`, `AllDelivered` | pass (about 15,000 states) |
| `faulty_peer_length` | `MCFrameCodecFaultyPeer.cfg` | `BadLengthFieldRejected` with a peer writing length field 20 or 2^32 - 1 and `MaxBodySize = 1024` | violation: length 20 panics in `split_to` even in a release build; length 2^32 - 1 is accepted as a frame of about 4 GiB |
| `serde_roundtrip` | `MCSerdeCodec.cfg` | `RoundTrip`, `ShortInputReportsShortfall`, `GenericConversionExact` over 50 scalar and newtype values, every cut up to 8 bytes and up to 2 extra bytes | pass (1,350 states) |
| `serde_unsupported_roundtrip` | `MCSerdeCodec_unsupported.cfg` | `RoundTrip` of `true`, `false` and a struct, a tuple and a tuple struct of a `u8` and an `i32` | violation: a bool is 2 bytes written and 4 read; a struct reaches the `unimplemented!()` `deserialize_seq` |
| `read_helpers` | `MCReadBuffer.cfg` | `TypeOK`, `NoBytesLostOrReordered`, `ReadNAssertionsHold` for both clients, inputs of 0..6 bytes, capacities 0..6 | pass (244 states) |
| `read_into_asserts` | `MCReadBuffer_assert.cfg` | `ReadIntoAssertionsHold` | violation: one call on an empty `BytesMut` with spare capacity (TLC reports capacity 1 or 2, whichever worker finds it first) |
| `connection` | `MCConnection.cfg` | `HandlersSeeOnlyTheirMessages`, `OnePingInFlight`, `ImplementsPeerNames`, `HungPeerReported`, `LivePeerCycles`, `AnnouncedUserMessageDelivered` with two sender and two type names, announcements at any time, one user message on either channel, the ping monitor and a peer that may hang | pass (543,086 states, about 3 min 10 s) |
| `id_translation_datagram` | `MCIdTranslation_datagram.cfg` | `AnnouncedUserMessageNeverDropped` on a connection whose user messages may be `LowLatency` without `Reliable` | violation: a message sent after both descriptions overtakes them on `udp` |
| `reader_progress` | `MCReadBuffer_progress.cfg` | `EventuallyAllRead` with the reader looping on `read_from` | violation: no byte is ever read |

Bounds for `frame_stream`:

- Three frames. The first is the 17-byte body of the first message of a
  real session: a 48-byte frame with 7 padding bytes.
- The second is a header-only system message with negative sender and
  type ids: 24 bytes.
- The third is a 13-byte body: a 40-byte frame with 3 padding bytes.
- `OutCap` is 48, the largest frame. After the first frame the buffer is
  full, so `OutOfBuffer` occurs. A frame that fills the buffer exactly
  must still be accepted.
- The transport may cut anywhere: inside the length field, inside the
  header, inside the body and inside the padding. Every combination of
  cuts for these three frames is explored.

Fairness is weak fairness on each of `BufferMessage`, `Transmit` and
`Decode`. The justification for each:

- The application keeps sending while it has messages.
- TCP delivers what was written.
- The runtime polls the framed stream whenever bytes arrive. `Decode`
  on an unchanged buffer is a stuttering step, so weak fairness does not
  force useless retries.

The sender's list is finite, so the stream really stops. For that reason
`CHECK_DEADLOCK` is off and `AllDelivered` is the check that nothing gets
stuck on the way.

Findings (details in `PROJECT.json`):

1. The `roundtrip` proptest in `message.rs` draws length fields from 20
   on. For 20..23, `from_length_field` underflows and a debug build
   panics. Its body is a bare `==` whose value is discarded, never
   `prop_assert!`ed, so the test can fail only by panicking.
2. `unbuffer_ref` trusts the peer's length field. A value below 24
   panics the decoder in both builds. A length field of 0 in a release
   build asks for about 2^64 more bytes, and one near 2^32 is taken as
   a body of about 4 GiB the decoder keeps waiting for; spec 7 wants
   such a length refused as a fatal protocol error.

3. `serialize_bool` writes an `i16` (2 bytes) and `deserialize_bool`
   reads a `u32` (4 bytes); spec 4.2 says 32 bits. A serialized `bool`
   deserializes to `NeedMoreData(AtLeast(2))`.
4. Structs serialize but cannot be deserialized: `deserialize_struct`
   ends in `deserialize_seq`, which is `unimplemented!()`.
5. `read_into_bytes_mut` and `BytesMutReader::read_from` read into the
   `BytesMut` they have just `split()` empty, a slice of length 0: every
   read returns 0, so a client looping on them never receives a byte.
6. `read_into_bytes_mut` asserts the capacity is unchanged; after the
   `unsplit` of an empty clone the buffer has the capacity of its
   contents (or 0), so any spare capacity makes the assert panic.

7. Spec 4.5 requires a description to reach the peer before any
   message using its id, but the core leaves channel choice by class of
   service to the transport. A message without `Reliable`, sent after
   the descriptions of its sender and type went out, can overtake them
   on the datagram channel and is dropped.
8. `length_field()` casts `unpadded_body_size + 24` to `u32` and
   `buffer_ref` writes it unchecked: a body of `2^32 - 24` bytes or
   more gets a wrapped length field, and the receiver misframes the
   rest of the stream. `MessageSize` keeps both widths (`U32Mod` stands
   for 2^32, `UsizeMod` for 2^64, scaled down with their ratios kept
   where the arithmetic depends on them), so the case is reached.

Fairness for `ReadBuffer` is weak fairness on `read_into_bytes_mut` and
`read_from`: a client calls its read helper in a loop. `take_contents`,
`give_back_contents` and `Consume` are the caller's choices and carry
no fairness. The stream never closes, so a client that has read
everything waits forever; `CHECK_DEADLOCK` is off for that reason.

Bounds for `read_helpers`: six distinct bytes are enough to hold a
cookie of 2 bytes and frame bytes after it; capacities 0..6 cover an
exact fit, spare room and too little; `ReserveSlack = 1` lets `reserve`
grant more than asked. The bytes crate's `split`/`unsplit` behaviour
is taken from its documentation.

## 5. Not modelled, and why

- The physical transport, logging, the CLI and the async runtime are
  external (spec 1). The byte stream is abstracted to `Transmit`.
- Frames of gigabytes as byte sequences are beyond what TLC can hold.
  The missing sanity bound on a declared length (`message.rs:348`) is
  checked on the decoder's answer to the header alone: `Exactly` with
  the body size it derived (`faulty_peer_length`). The `u32` truncation
  of `length_field()` is checked on the size arithmetic alone
  (`length_field_truncation`).
- `EndpointFile`: `send_system_change` and `buffer_generic_message` are
  `unimplemented!()`, so any use beyond construction panics, and `new()`
  is a blocking read and check of the file cookie over the bytes that
  `ReadBuffer` and `FrameCodec` already model. There is no further
  behaviour to explore.
- The raw ping client (`check_ping_cycle`, the pong handler) and B's
  ping server are not under `src/`; `Connection` follows spec 4.7 for
  them, sending a ping only from `Idle`, as the spec chooses.
- Read errors and end of stream in the read helpers: the model's stream
  never fails or closes. `BytesMutReader::clear` and `len` are not
  modelled.
- Float primitives are bit copies through `put_f*_be`. They add nothing
  to integers of the same width.
- The components marked `not_modelled` in `PROJECT.json` follow the plan
  above.
