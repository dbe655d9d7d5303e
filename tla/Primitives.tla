----------------------------- MODULE Primitives -----------------------------
(***************************************************************************)
(* Fixed-width big-endian primitives: the byte conversion behind          *)
(* Serializer::serialize_{i8..u64} (src/src/ser.rs, put_*_be) and the     *)
(* PrimitiveSerde get/put of src/src/de.rs (get_*_be).  A value is turned *)
(* into Width bytes, most significant first, in two's complement; the     *)
(* floor division and modulus of TLA+ give the two's-complement digits of *)
(* a negative value without ever forming 2^(8*Width).                     *)
(***************************************************************************)
EXTENDS Integers, Sequences

Byte == 0..255

\* put_*_be(v): Width bytes of v, big-endian, two's complement.
RECURSIVE PutBE(_, _)
PutBE(v, width) ==
    IF width = 0 THEN <<>>
    ELSE PutBE(v \div 256, width - 1) \o << v % 256 >>

\* acc followed by the bytes as base-256 digits, most significant first.
RECURSIVE Digits(_, _)
Digits(acc, bytes) ==
    IF bytes = <<>> THEN acc ELSE Digits(acc * 256 + Head(bytes), Tail(bytes))

\* get_u*_be: the unsigned value of a big-endian byte string.
GetUnsignedBE(bytes) == Digits(0, bytes)

\* Mutant: the first byte is read as unsigned, so the sign is lost.
GetSignedBE_unsigned(bytes) == Digits(0, bytes)

\* get_i*_be: the signed (two's complement) value of a big-endian string;
\* the sign comes from the first byte.
GetSignedBE(bytes) ==
    LET first == IF bytes[1] >= 128 THEN bytes[1] - 256 ELSE bytes[1]
    IN  Digits(first, Tail(bytes))

\* Mutant: the shortfall is the whole size, ignoring the bytes already
\* present.
CheckSizeShortfall_whole(size, remaining) ==
    IF remaining < size THEN size ELSE 0

\* PrimitiveSerde::check_size: the shortfall reported as
\* NeedMoreData(AtLeast(size - remaining)), or 0 when the value fits.
CheckSizeShortfall(size, remaining) ==
    IF remaining < size THEN size - remaining ELSE 0
=============================================================================
