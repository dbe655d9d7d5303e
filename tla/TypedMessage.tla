---------------------------- MODULE TypedMessage ----------------------------
(***************************************************************************)
(* The conversions between a typed message and a generic one of          *)
(* src/src/message.rs: try_into_generic buffers the typed body into fresh *)
(* bytes, and try_from_generic unbuffers a typed body from a copy of the  *)
(* generic body's bytes, turns a NeedMoreData into a parse error (the     *)
(* body is complete, so more bytes will never come), and refuses a body   *)
(* that leaves bytes unconsumed.  A typed body is a fixed layout of       *)
(* primitive fields (spec 4.2); its Buffer and Unbuffer impls are not     *)
(* under src/ and follow the layout: each field big-endian in turn, each  *)
(* read checking its size first, as Deserializer::parse does.             *)
(***************************************************************************)
EXTENDS SerdeCodec

\* Message::from_header_and_body (and Message::new, given the header).
from_header_and_body(header, body) == [header |-> header, body |-> body]

\* Message::into_sequenced_message (and SequencedMessage::new).
into_sequenced_message(msg, seq) == [message |-> msg, sequence_number |-> seq]

\* Results of the conversions.
ResOk(msg) == [ok |-> TRUE, err |-> "none", msg |-> msg]
ResErr(err) == [ok |-> FALSE, err |-> err, msg |-> "none"]

\* Buffer of a typed body: its fields, big-endian, one after another.
RECURSIVE BufferFields(_)
BufferFields(fields) ==
    IF fields = <<>> THEN <<>>
    ELSE PutBE(Head(fields).v, Width[Head(fields).t]) \o BufferFields(Tail(fields))

\* Unbuffer of a typed body whose field types are shape: each field is
\* parsed in turn; the first shortfall is the result.
RECURSIVE UnbufferFields(_, _, _)
UnbufferFields(shape, buf, acc) ==
    IF shape = <<>> THEN DeOk(acc, buf)
    ELSE LET p == Parse(Width[Head(shape)], Head(shape) \in Signed, buf)
         IN  IF p.r = "Ok"
             THEN UnbufferFields(Tail(shape), p.rest,
                                 Append(acc, [t |-> Head(shape), v |-> p.val]))
             ELSE p

\* The field types of a typed body.
ShapeOf(fields) == [i \in DOMAIN fields |-> fields[i].t]

\* Message::try_into_generic: allocate_and_buffer reserves the body's size
\* and buffers it, so it cannot run out of room.
try_into_generic(msg) ==
    ResOk(from_header_and_body(msg.header, BufferFields(msg.body)))

\* Mutant: the unconsumed-bytes check is missing.
try_from_generic_lenient(msg, shape) ==
    LET p == UnbufferFields(shape, msg.body, <<>>)
    IN  IF p.r # "Ok" THEN ResErr("ParseError")
        ELSE ResOk(from_header_and_body(msg.header, p.val))

\* Message::try_from_generic for a typed body of the given shape.
try_from_generic(msg, shape) ==
    LET p == UnbufferFields(shape, msg.body, <<>>)
    IN  CASE p.r # "Ok"     -> ResErr("ParseError")
          [] p.rest # <<>>  -> ResErr("OtherMessage")
          [] OTHER          -> ResOk(from_header_and_body(msg.header, p.val))

\* unbuffer_typed_message_body: try_from_generic, its error passed on.
unbuffer_typed_message_body(msg, shape) == try_from_generic(msg, shape)

\* make_sequenced_message_body_generic: the message made generic, with the
\* sequence number it had.
make_sequenced_message_body_generic(smsg) ==
    LET g == try_into_generic(smsg.message)
    IN  IF g.ok THEN ResOk(into_sequenced_message(g.msg, smsg.sequence_number)) ELSE g
=============================================================================
