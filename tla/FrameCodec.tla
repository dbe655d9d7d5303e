----------------------------- MODULE FrameCodec -----------------------------
(***************************************************************************)
(* The framing codec of src/src/message.rs over a byte stream:             *)
(*   - the sender buffers SequencedGenericMessages with                    *)
(*     Buffer::buffer_ref into a destination of capacity OutCap, which    *)
(*     fails with OutOfBuffer when the frame does not fit;                 *)
(*   - the transport (a TCP-like byte stream) moves any non-empty prefix  *)
(*     of the written bytes to the receiver, so frames arrive cut at      *)
(*     arbitrary points;                                                   *)
(*   - the receiver runs Unbuffer::unbuffer_ref on what it has; on         *)
(*     NeedMoreData its caller keeps the buffer untouched and retries     *)
(*     after the next read (spec 4.1), on success it drops the bytes the  *)
(*     frame used.                                                         *)
(* Bytes are the integers 0..255 and the header fields are encoded with   *)
(* the big-endian conversions of Primitives.                              *)
(***************************************************************************)
EXTENDS Integers, Sequences, SequencesExt, Primitives, MessageSize

CONSTANTS
    Msgs,            \* the SequencedGenericMessages the sender buffers, in order
    OutCap,          \* remaining_mut() of an empty destination buffer
    OverflowChecks   \* the build: TRUE = debug, arithmetic overflow panics

\* A SequencedGenericMessage: TimeVal (sec, usec), sender, message_type,
\* sequence_number and the raw body bytes.
Message == [sec : Int, usec : Int, sender : Int, type : Int, seq : Nat,
            body : Seq(Byte)]

ASSUME /\ Msgs \in Seq(Message)
       /\ OutCap \in Nat
       /\ OverflowChecks \in BOOLEAN

VARIABLES
    next,            \* index in Msgs of the next message to buffer
    outBuf,          \* bytes buffer_ref wrote that the transport has not taken
    inBuf,           \* bytes received and not yet consumed by a decode
    decoded,         \* messages returned by successful decodes, in order
    encodeResult,    \* outcome of the last buffer_ref
    decodeResult     \* outcome of the last unbuffer_ref, with Len(inBuf) then

vars == <<next, outBuf, inBuf, decoded, encodeResult, decodeResult>>

DecodeOutcome == {"None", "Ok", "AtLeast", "Exactly", "Panic"}

Zeros(k) == [i \in 1..k |-> 0]

\* The bytes after the first k of s (Bytes::split_to(k) keeps them).
Drop(s, k) == SubSeq(s, k + 1, Len(s))

(***************************************************************************)
(* Mutants: plausible bugs of the definitions below, each of which a      *)
(* property of MCFrameCodec.cfg must detect.                              *)
(***************************************************************************)
\* sender and message_type written in swapped order
EncodeFrame_swapped(m) ==
    LET size == from_unpadded_body_size(Len(m.body))
    IN  PutBE(length_field(size), 4) \o PutBE(m.sec, 4) \o PutBE(m.usec, 4)
        \o PutBE(m.type, 4) \o PutBE(m.sender, 4) \o PutBE(m.seq, 4)
        \o m.body \o Zeros(body_padding(size))

\* the u32 length field already read is not subtracted
ExpectedRemaining_full(size) == padded_message_size(size)

\* the capacity test rejects a frame that fills the buffer exactly
Fits_strict(size) == OutCap - Len(outBuf) > padded_message_size(size)

(***************************************************************************)
(* impl Buffer for SequencedMessage<GenericBody>: length field, time,     *)
(* sender, type, sequence number, body, then body_padding() zero bytes.   *)
(***************************************************************************)
EncodeFrame(m) ==
    LET size == from_unpadded_body_size(Len(m.body))
    IN  PutBE(length_field(size), 4) \o PutBE(m.sec, 4) \o PutBE(m.usec, 4)
        \o PutBE(m.sender, 4) \o PutBE(m.type, 4) \o PutBE(m.seq, 4)
        \o m.body \o Zeros(body_padding(size))

\* buffer_ref's capacity test: remaining_mut() >= padded_message_size().
Fits(size) == OutCap - Len(outBuf) >= padded_message_size(size)

\* Bytes unbuffer_ref needs after the length field it has read.
ExpectedRemaining(size) == USub(padded_message_size(size), 4)

\* Ends of the header fields after the length field: time (8 bytes, two
\* i32), sender, message_type, sequence_number.  Each is unbuffered on its
\* own and fails with the shortfall up to the end of the first that is cut.
HeaderFieldEnds == {8, 12, 16, 20}

(***************************************************************************)
(* impl Unbuffer for SequencedMessage<GenericBody>, applied to a copy of  *)
(* the receive buffer b.  The result says how it ended and, on success,   *)
(* the message and how many bytes of b it used.                           *)
(***************************************************************************)
UnbufferFrame(b) ==
    LET Result(kind, n) == [kind |-> kind, n |-> n]
        rest == Len(b) - 4
    IN
    IF Len(b) < 4 THEN Result("AtLeast", 4 - Len(b))
    ELSE
    LET lf       == GetUnsignedBE(SubSeq(b, 1, 4))
        size     == from_length_field(lf)
        expected == ExpectedRemaining(size)
    IN
    CASE OverflowChecks /\ FromLengthFieldUnderflows(lf) -> Result("Panic", 0)
      [] rest < expected -> Result("Exactly", expected - rest)
      [] rest < 20 ->
            LET cut == {e \in HeaderFieldEnds : e > rest}
            IN  Result("AtLeast", (CHOOSE e \in cut : \A f \in cut : e <= f) - rest)
      \* split_to(unpadded_body_size) and split_to(body_padding) past the end
      [] rest - 20 < size + body_padding(size) -> Result("Panic", 0)
      [] OTHER ->
            [kind     |-> "Ok",
             n        |-> 0,
             consumed |-> 24 + size + body_padding(size),
             msg      |-> [sec    |-> GetSignedBE(SubSeq(b, 5, 8)),
                           usec   |-> GetSignedBE(SubSeq(b, 9, 12)),
                           sender |-> GetSignedBE(SubSeq(b, 13, 16)),
                           type   |-> GetSignedBE(SubSeq(b, 17, 20)),
                           seq    |-> GetUnsignedBE(SubSeq(b, 21, 24)),
                           body   |-> SubSeq(b, 25, 24 + size)]]

-----------------------------------------------------------------------------

Init ==
    /\ next = 1
    /\ outBuf = <<>>
    /\ inBuf = <<>>
    /\ decoded = <<>>
    /\ encodeResult = "None"
    /\ decodeResult = [kind |-> "None", n |-> 0, at |-> 0]

\* buffer_ref of the next message: OutOfBuffer leaves the destination as it
\* was; otherwise the whole frame is appended.
BufferMessage ==
    /\ next <= Len(Msgs)
    /\ LET frame == EncodeFrame(Msgs[next])
           size  == from_unpadded_body_size(Len(Msgs[next].body))
       IN  \/ /\ ~Fits(size)
              /\ encodeResult' = "OutOfBuffer"
              /\ UNCHANGED <<next, outBuf>>
           \/ /\ Fits(size)
              /\ outBuf' = outBuf \o frame
              /\ next' = next + 1
              /\ encodeResult' = "Ok"
    /\ UNCHANGED <<inBuf, decoded, decodeResult>>

\* The transport delivers the first k written bytes, for any k.
Transmit ==
    /\ \E k \in 1..Len(outBuf) :
          /\ inBuf' = inBuf \o SubSeq(outBuf, 1, k)
          /\ outBuf' = Drop(outBuf, k)
    /\ UNCHANGED <<next, decoded, encodeResult, decodeResult>>

\* One decode attempt on the receive buffer.  A panic ends the receiving
\* task: nothing is decoded after it.
Decode ==
    /\ inBuf # <<>>
    /\ decodeResult.kind # "Panic"
    /\ LET r == UnbufferFrame(inBuf)
       IN  \/ /\ r.kind = "Ok"
              /\ decoded' = Append(decoded, r.msg)
              /\ inBuf' = Drop(inBuf, r.consumed)
              /\ decodeResult' = [kind |-> "Ok", n |-> 0, at |-> Len(inBuf)]
           \/ /\ r.kind # "Ok"
              /\ decodeResult' = [kind |-> r.kind, n |-> r.n, at |-> Len(inBuf)]
              /\ UNCHANGED <<decoded, inBuf>>
    /\ UNCHANGED <<next, outBuf, encodeResult>>

Next == BufferMessage \/ Transmit \/ Decode

(***************************************************************************)
(* The application keeps buffering while it has messages, the transport  *)
(* keeps delivering written bytes, and the runtime polls the decoder      *)
(* whenever bytes have arrived: each is weakly fair.                      *)
(***************************************************************************)
Fairness == WF_vars(BufferMessage) /\ WF_vars(Transmit) /\ WF_vars(Decode)

Spec == Init /\ [][Next]_vars /\ Fairness

-----------------------------------------------------------------------------

TypeOK ==
    /\ next \in 1..Len(Msgs) + 1
    /\ outBuf \in Seq(Byte)
    /\ inBuf \in Seq(Byte)
    /\ decoded \in Seq(Message)
    /\ encodeResult \in {"None", "Ok", "OutOfBuffer"}
    /\ decodeResult \in [kind : DecodeOutcome, n : Nat, at : Nat]

(***************************************************************************)
(* Whatever cuts the transport makes, the receiver decodes exactly the   *)
(* messages the sender buffered, in order, each with its header, body and *)
(* sequence number intact (buffer_ref / unbuffer_ref agree on layout,     *)
(* padding and the bytes a frame occupies).                               *)
(***************************************************************************)
DecodedMatchesSent ==
    /\ Len(decoded) < next
    /\ decoded = SubSeq(Msgs, 1, Len(decoded))

(***************************************************************************)
(* A NeedMoreData(Exactly(k)) from unbuffer_ref names exactly the bytes   *)
(* of the sender's next frame still missing, and NeedMoreData(AtLeast(k)) *)
(* with fewer than 4 bytes the bytes missing from its length field: after *)
(* k more bytes the retry succeeds.                                        *)
(***************************************************************************)
NeedMoreIsExact ==
    LET frameLen == Len(EncodeFrame(Msgs[Len(decoded) + 1]))
    IN  /\ decodeResult.kind = "Exactly" =>
               decodeResult.at + decodeResult.n = frameLen
        /\ decodeResult.kind = "AtLeast" =>
               decodeResult.at < 4 /\ decodeResult.at + decodeResult.n = 4

(***************************************************************************)
(* Every message the application buffers is eventually decoded by the   *)
(* receiver, through OutOfBuffer retries and arbitrary cuts.              *)
(***************************************************************************)
AllDelivered == <>(Len(decoded) = Len(Msgs))
=============================================================================
