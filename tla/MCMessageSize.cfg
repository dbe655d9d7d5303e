CONSTANTS
    UsizeMod = 1073741824
    U32Mod = 16777216
    MinLen = 0
    MaxLen = 300
SPECIFICATION Spec
INVARIANTS SizesMatchReference FrameSizeRoundTrip
