--------------------------- MODULE MCFrameCodec ---------------------------
(***************************************************************************)
(* Three frames: the 17-byte body of the "VRPN Control" sender            *)
(* description (48-byte frame, 7 padding bytes), an empty body of a       *)
(* system message with a negative type and sender (24 bytes, header only) *)
(* and a 13-byte body (40 bytes, 3 padding bytes), so that padding, a     *)
(* header-only frame and negative ids all cross arbitrary cuts.  OutCap   *)
(* is the largest frame, so a full destination forces OutOfBuffer.       *)
(***************************************************************************)
EXTENDS FrameCodec

MCMsgs ==
    << [sec |-> 1, usec |-> 2, sender |-> 0, type |-> -3, seq |-> 0,
        body |-> <<0,0,0,13,86,82,80,78,32,67,111,110,116,114,111,108,0>>],
       [sec |-> 1, usec |-> 900000, sender |-> -1, type |-> -5, seq |-> 1,
        body |-> <<>>],
       [sec |-> 2, usec |-> 0, sender |-> 1, type |-> 0, seq |-> 2,
        body |-> <<255,128,7,0,1,2,3,4,5,6,7,8,9>>] >>

MCOutCap == 48
=============================================================================
