---------------------------- MODULE MessageSize ----------------------------
(***************************************************************************)
(* Size and padding arithmetic of a framed message (src/src/message.rs,   *)
(* compute_padding, padded and struct MessageSize).  A MessageSize is its *)
(* only field, unpadded_body_size.  All arithmetic is on usize, which a   *)
(* release build wraps modulo UsizeMod; length_field() is then cast to    *)
(* u32 (modulo U32Mod).  A debug build instead panics when the usize      *)
(* subtraction in from_length_field underflows (FromLengthFieldUnderflows).*)
(***************************************************************************)
EXTENDS Integers

CONSTANTS
    UsizeMod,   \* 2^64 in the code: the modulus of usize arithmetic
    U32Mod      \* 2^32 in the code: the modulus of the `as u32` cast

\* constants::ALIGN
ALIGN == 8

ASSUME /\ UsizeMod % ALIGN = 0
       /\ U32Mod % ALIGN = 0
       /\ UsizeMod % U32Mod = 0
       /\ UsizeMod > U32Mod

\* usize addition and subtraction as a release build computes them
UAdd(a, b) == (a + b) % UsizeMod
USub(a, b) == (a - b) % UsizeMod

\* Mutants: padding without the zero case, and from_length_field
\* subtracting the unpadded header size.
compute_padding_nozero(len) == ALIGN - (len % ALIGN)

compute_padding(len) ==
    LET remainder == len % ALIGN
    IN  IF remainder # 0 THEN ALIGN - remainder ELSE 0

padded(len) == UAdd(len, compute_padding(len))

UNPADDED_HEADER_SIZE == 5 * 4

from_unpadded_body_size(unpadded_body_size) == unpadded_body_size

from_length_field_unpadded(length_field) ==
    from_unpadded_body_size(USub(length_field, UNPADDED_HEADER_SIZE))

from_length_field(length_field) ==
    from_unpadded_body_size(USub(length_field, padded(UNPADDED_HEADER_SIZE)))

\* The subtraction of from_length_field is below zero: a debug build panics.
FromLengthFieldUnderflows(length_field) ==
    length_field < padded(UNPADDED_HEADER_SIZE)

length_field(size) == UAdd(size, padded(UNPADDED_HEADER_SIZE)) % U32Mod

padded_body_size(size) == padded(size)

body_padding(size) == compute_padding(size)

padded_message_size(size) ==
    UAdd(padded_body_size(size), padded(UNPADDED_HEADER_SIZE))

(***************************************************************************)
(* The reference: tests::transcribed_padding_function, a literal          *)
(* transcription of vrpn_Endpoint::marshall_message of the C++ library.   *)
(***************************************************************************)
transcribed_padding_function(len) ==
    LET ceil_len   == IF len % ALIGN # 0 THEN len + (ALIGN - (len % ALIGN)) ELSE len
        header_len == IF (5 * 4) % ALIGN # 0
                      THEN 5 * 4 + (ALIGN - ((5 * 4) % ALIGN)) ELSE 5 * 4
    IN  [header_len |-> header_len,
         total_len  |-> header_len + ceil_len,
         len_field  |-> header_len + len]
=============================================================================
