----------------------- MODULE MCFrameCodecFaultyPeer -----------------------
(***************************************************************************)
(* The frames of MCFrameCodec, with a peer that may write, in place of    *)
(* any of them, a length field of 20 (the unpadded header size, which a   *)
(* peer counting the header without padding would write) or the largest  *)
(* u32 (a corrupted or hostile field).                                     *)
(***************************************************************************)
EXTENDS FrameCodecFaultyPeer, MCFrameCodec

MCBadLengthFields == {20, U32Mod - 1}
=============================================================================
