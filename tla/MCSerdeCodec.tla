--------------------------- MODULE MCSerdeCodec ---------------------------
(***************************************************************************)
(* Checks to_bytes / from_buf over bounded inputs: the state is a value   *)
(* and a cut (how many bytes are missing from its encoding); no step      *)
(* changes it, so every state is one case of the check.                   *)
(***************************************************************************)
EXTENDS TypedMessage

CONSTANTS
    Values,   \* the values serialized
    MaxCut,   \* the most bytes cut from the end of an encoding
    MaxExtra  \* the most bytes appended to a typed body's encoding

VARIABLES val, cut, extra

vars == <<val, cut, extra>>

Init == /\ val \in Values
        /\ cut \in 0..MaxCut
        /\ extra \in 0..MaxExtra

Next == UNCHANGED vars

Spec == Init /\ [][Next]_vars

Encoded == to_bytes(val).bytes

Prim(t, xs) == {[t |-> t, v |-> x] : x \in xs}

\* Every primitive at its sign and width edges that TLC's integers hold,
\* unit, and newtype structs around them.
ScalarValues ==
    LET prims == Prim("i8", {-128, -1, 0, 127}) \cup Prim("u8", {0, 128, 255})
                 \cup Prim("i16", {-32768, -1, 256}) \cup Prim("u16", {0, 65535})
                 \cup Prim("i32", {-2147483647 - 1, -3, 2147483647})
                 \cup Prim("u32", {0, 16777216}) \cup Prim("i64", {-1, 0, 1})
                 \cup Prim("u64", {0, 4294967}) \cup Prim("f32", {1065353216})
                 \cup Prim("f64", {0})
    IN  prims \cup {[t |-> "unit"]}
        \cup {[t |-> "newtype", inner |-> p] : p \in prims \cup {[t |-> "unit"]}}

BoolValues == {[t |-> "bool", v |-> b] : b \in BOOLEAN}

\* A struct, a tuple and a tuple struct of two primitives each.
StructValues ==
    {[t |-> k, fields |-> << [t |-> "u8", v |-> 1], [t |-> "i32", v |-> -2] >>] :
        k \in {"struct", "tuple", "tuple_struct"}}

\* The shapes spec 4.2 supports that do not round-trip: bools and compounds.
UnsupportedValues == BoolValues \cup StructValues

(***************************************************************************)
(* Deserializing what to_bytes wrote gives the value back, and every     *)
(* byte is used (spec 4.2: a fixed-layout codec of primitives, bools,    *)
(* and structs of them).                                                   *)
(***************************************************************************)
RoundTrip ==
    /\ to_bytes(val).ok
    /\ LET p == from_buf(val, Encoded)
       IN  p.r = "Ok" /\ p.val = val

(***************************************************************************)
(* An encoding missing its last cut bytes makes from_buf report           *)
(* NeedMoreData of exactly cut bytes (the value is a single primitive),   *)
(* so a caller that appends that many bytes and retries succeeds.         *)
(***************************************************************************)
ShortInputReportsShortfall ==
    (cut > 0 /\ cut <= Len(Encoded)) =>
        LET p == from_buf(val, SubSeq(Encoded, 1, Len(Encoded) - cut))
        IN  p.r \in {"AtLeast", "Exactly"} /\ p.n = cut
-----------------------------------------------------------------------------
\* A message whose typed body is a u8 followed by the primitive val, with
\* a fixed header and sequence number; its generic form from
\* make_sequenced_message_body_generic; and the body
\* bytes received: those, less the last cut, plus extra bytes.
Header == [time |-> <<1, 2>>, message_type |-> 3, sender |-> 4]
TypedBody == IF val.t \in Prims THEN << [t |-> "u8", v |-> 7], val >> ELSE <<>>
Typed == from_header_and_body(Header, TypedBody)
Sequenced == into_sequenced_message(Typed, 9)
GenericBytes == make_sequenced_message_body_generic(Sequenced).msg.message.body
ReceivedBody ==
    SubSeq(GenericBytes, 1, Len(GenericBytes) - cut) \o [i \in 1..extra |-> 0]

(***************************************************************************)
(* unbuffer_typed_message_body gives back exactly the message that        *)
(* make_sequenced_message_body_generic made generic, and a body that is   *)
(* shorter or longer by any number of bytes is                            *)
(* refused as a parse error or as unconsumed bytes, never as NeedMoreData *)
(* and never accepted (spec 3: trailing bytes after a complete value are  *)
(* fatal, and a complete message will get no more bytes).                  *)
(***************************************************************************)
GenericConversionExact ==
    cut <= Len(GenericBytes) =>
        LET r == unbuffer_typed_message_body(from_header_and_body(Header, ReceivedBody),
                                             ShapeOf(TypedBody))
        IN  /\ cut = 0 /\ extra = 0 => r = ResOk(Typed)
            /\ cut # extra => ~r.ok /\ r.err \in {"ParseError", "OtherMessage"}
=============================================================================
