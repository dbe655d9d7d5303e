----------------------------- MODULE SerdeCodec -----------------------------
(***************************************************************************)
(* The serde Serializer of src/src/ser.rs (to_bytes) and Deserializer of   *)
(* src/src/de.rs (from_buf) as recursive operators over a value tree.     *)
(* A value is a record whose field t names its Rust shape:                 *)
(*   a primitive ("i8".."u64", "f32", "f64"; a float is its bit pattern)  *)
(*   with v its integer, "bool" with v a BOOLEAN, "char" with v a byte,   *)
(*   "unit", "newtype" with inner a value, "seq", "tuple",                *)
(*   "tuple_struct" or "struct" with fields a sequence of values, "bytes"  *)
(*   with v a byte sequence.                                               *)
(* The Deserialize impl of the target type drives the deserializer, so    *)
(* decoding takes the expected value as the shape to read.                *)
(***************************************************************************)
EXTENDS Integers, Sequences, Primitives

\* size_of of each fixed-width primitive
Width == [i8 |-> 1, u8 |-> 1, i16 |-> 2, u16 |-> 2, i32 |-> 4, u32 |-> 4,
          i64 |-> 8, u64 |-> 8, f32 |-> 4, f64 |-> 8]

Prims == DOMAIN Width

Signed == {"i8", "i16", "i32", "i64"}

\* Outcome of a serialization: the bytes written, or a panic
\* (unimplemented!()).
SerOk(bytes) == [ok |-> TRUE, bytes |-> bytes]
SerPanic == [ok |-> FALSE, bytes |-> <<>>]

(***************************************************************************)
(* Serializer: each serialize_<prim> puts the value big-endian; bool is   *)
(* serialize_i16 of 1 or 0; unit writes nothing; a newtype struct         *)
(* serializes its inner value; bytes are put raw; a seq, tuple, tuple     *)
(* struct or struct is begun by serialize_seq, which writes no length,    *)
(* and its elements follow (SerElements); char, enums and maps are        *)
(* unimplemented!().                                                       *)
(***************************************************************************)
Compound == {"seq", "tuple", "tuple_struct", "struct"}

RECURSIVE Ser(_), SerElements(_)

\* serialize_element / serialize_field of SerializeSeq, SerializeTuple and
\* SerializeTupleStruct, then end: each element serializes itself in turn
\* into the same output; the first panic ends the whole serialization.
SerElements(vals) ==
    IF vals = <<>> THEN SerOk(<<>>)
    ELSE LET first == Ser(Head(vals))
             rest  == SerElements(Tail(vals))
         IN  IF first.ok /\ rest.ok THEN SerOk(first.bytes \o rest.bytes) ELSE SerPanic

Ser(val) ==
    CASE val.t \in Prims -> SerOk(PutBE(val.v, Width[val.t]))
      [] val.t = "bool" -> SerOk(PutBE(IF val.v THEN 1 ELSE 0, 2))
      [] val.t = "unit" -> SerOk(<<>>)
      [] val.t = "newtype" -> Ser(val.inner)
      [] val.t = "bytes" -> SerOk(val.v)
      [] val.t \in Compound -> SerElements(val.fields)
      [] OTHER -> SerPanic

\* to_bytes
to_bytes(val) == Ser(val)

\* Outcomes of a deserialization.
DeOk(val, rest) == [r |-> "Ok", val |-> val, rest |-> rest, n |-> 0]
DeNeedMore(kind, n) == [r |-> kind, val |-> "none", rest |-> <<>>, n |-> n]
DePanic == [r |-> "Panic", val |-> "none", rest |-> <<>>, n |-> 0]

\* Deserializer::parse::<T>: check_size, then get, on the buffer buf.
Parse(width, signed, buf) ==
    LET short == CheckSizeShortfall(width, Len(buf))
        bytes == SubSeq(buf, 1, width)
    IN  IF short > 0 THEN DeNeedMore("AtLeast", short)
        ELSE DeOk(IF signed THEN GetSignedBE(bytes) ELSE GetUnsignedBE(bytes),
                  SubSeq(buf, width + 1, Len(buf)))

(***************************************************************************)
(* Deserializer: deserialize_<prim> parses the primitive; deserialize_bool *)
(* is parse::<u32> compared with 1; deserialize_char needs 1 byte          *)
(* (Exactly) and takes it; unit reads nothing; newtype_struct reads its    *)
(* inner value; seq, tuple, tuple struct and struct all end in            *)
(* deserialize_seq, and bytes in deserialize_bytes: both unimplemented!(). *)
(***************************************************************************)
RECURSIVE De(_, _)
De(shape, buf) ==
    CASE shape.t \in Prims ->
            LET p == Parse(Width[shape.t], shape.t \in Signed, buf)
            IN  IF p.r = "Ok" THEN DeOk([t |-> shape.t, v |-> p.val], p.rest) ELSE p
      [] shape.t = "bool" ->
            LET p == Parse(4, FALSE, buf)
            IN  IF p.r = "Ok" THEN DeOk([t |-> "bool", v |-> p.val = 1], p.rest) ELSE p
      [] shape.t = "char" ->
            IF Len(buf) < 1 THEN DeNeedMore("Exactly", 1)
            ELSE DeOk([t |-> "char", v |-> Head(buf)], Tail(buf))
      [] shape.t = "unit" -> DeOk([t |-> "unit"], buf)
      [] shape.t = "newtype" ->
            LET p == De(shape.inner, buf)
            IN  IF p.r = "Ok" THEN DeOk([t |-> "newtype", inner |-> p.val], p.rest) ELSE p
      [] OTHER -> DePanic

\* from_buf: deserialize, then TrailingCharacters if input remains.
from_buf(shape, buf) ==
    LET p == De(shape, buf)
    IN  IF p.r = "Ok" /\ p.rest # <<>>
        THEN [r |-> "TrailingCharacters", val |-> "none", rest |-> p.rest, n |-> 0]
        ELSE p
=============================================================================
