CONSTANTS
    Msgs <- MCMsgs
    OutCap <- MCOutCap
    BadLengthFields <- MCBadLengthFields
    MaxBodySize = 1024
    UsizeMod = 1073741824
    U32Mod = 16777216
    OverflowChecks = FALSE
SPECIFICATION SpecFaulty
INVARIANT BadLengthFieldRejected
CHECK_DEADLOCK FALSE
