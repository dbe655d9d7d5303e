--------------------------- MODULE MCMessageSize ---------------------------
(***************************************************************************)
(* Checks the MessageSize arithmetic against the transcribed reference    *)
(* over every body length and length field in MinLen..MaxLen, in both    *)
(* builds: overflowChecks is TRUE for a debug build (the one `cargo test` *)
(* runs), FALSE for a release build.  The state is the input; no step changes   *)
(* it, so every state is one case of the check.                          *)
(***************************************************************************)
EXTENDS MessageSize

CONSTANTS MinLen, MaxLen

VARIABLES
    n,               \* the integer fed to the size functions
    overflowChecks   \* the build: TRUE = debug (panics on overflow)

vars == <<n, overflowChecks>>

Init == /\ n \in MinLen..MaxLen
        /\ overflowChecks \in BOOLEAN

Next == UNCHANGED vars

Spec == Init /\ [][Next]_vars

(***************************************************************************)
(* For a body of n bytes, length_field() and padded_message_size() equal *)
(* what marshall_message of the C++ implementation computes, the frame   *)
(* on the wire is a whole number of ALIGN units (tests                    *)
(* length_field_matches, total_length_matches).                           *)
(***************************************************************************)
SizesMatchReference ==
    LET ref == transcribed_padding_function(n)
    IN  /\ length_field(from_unpadded_body_size(n)) = ref.len_field
        /\ padded_message_size(from_unpadded_body_size(n)) = ref.total_len
        /\ padded_message_size(n) % ALIGN = 0

(***************************************************************************)
(* A receiver recovers the sender's body size from the length field the  *)
(* sender wrote: from_length_field(length_field(s)) = s.                  *)
(***************************************************************************)
FrameSizeRoundTrip ==
    from_length_field(length_field(from_unpadded_body_size(n))) = n

(***************************************************************************)
(* The proptest `roundtrip(len in 20u32..10000)`: from_length_field(len)  *)
(* then length_field() gives len back, for every len from 20 on, in the  *)
(* build the tests run (no panic on the way).                             *)
(***************************************************************************)
LengthFieldRoundTripFrom20 ==
    n >= 20 =>
        /\ ~(overflowChecks /\ FromLengthFieldUnderflows(n))
        /\ length_field(from_length_field(n)) = n
=============================================================================
