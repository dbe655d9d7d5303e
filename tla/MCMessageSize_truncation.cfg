\* Body sizes around the u32 range of the length field (U32Mod stands for
\* 2^32): the last 40 sizes below U32Mod and the first 8 above it.
CONSTANTS
    UsizeMod = 1073741824
    U32Mod = 16777216
    MinLen = 16777176
    MaxLen = 16777224
SPECIFICATION Spec
INVARIANT FrameSizeRoundTrip
