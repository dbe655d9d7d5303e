------------------------- MODULE FrameCodecFaultyPeer -------------------------
(***************************************************************************)
(* FrameCodec with a peer that does not follow the framing: besides       *)
(* well-formed frames it may write a 24-byte header whose length field is *)
(* any value of BadLengthFields, too small for a header or implausibly    *)
(* large.  The bytes reach unbuffer_ref unchanged; nothing in the decode  *)
(* path of src/src/message.rs checks the field before from_length_field   *)
(* subtracts the padded header size from it, or before the shortfall it   *)
(* implies is returned as NeedMoreData.                                    *)
(***************************************************************************)
EXTENDS FrameCodec

CONSTANTS
    BadLengthFields,  \* length fields the peer may write
    MaxBodySize       \* spec 7's sane maximum body size

ASSUME BadLengthFields \subseteq 0..(U32Mod - 1) /\ MaxBodySize \in Nat

\* The largest frame a receiver following spec 7 waits for.
MaxFrame == padded_message_size(MaxBodySize)

\* The peer writes a header with a bad length field in place of its next
\* message.
PeerWritesBadFrame ==
    /\ next <= Len(Msgs)
    /\ \E lf \in BadLengthFields :
          outBuf' = outBuf \o PutBE(lf, 4) \o Zeros(20)
    /\ next' = next + 1
    /\ UNCHANGED <<inBuf, decoded, encodeResult, decodeResult>>

NextFaulty == Next \/ PeerWritesBadFrame

SpecFaulty == Init /\ [][NextFaulty]_vars

(***************************************************************************)
(* Spec 7: framing errors are local to one decode attempt, and an         *)
(* implausibly large declared length is a protocol error.  Whatever       *)
(* length field the peer writes, unbuffer_ref returns a Result and never  *)
(* panics, and it never asks its caller to buffer more than a frame of    *)
(* MaxBodySize.                                                            *)
(***************************************************************************)
BadLengthFieldRejected ==
    /\ decodeResult.kind # "Panic"
    /\ decodeResult.kind = "Exactly" => decodeResult.at + decodeResult.n <= MaxFrame
=============================================================================
