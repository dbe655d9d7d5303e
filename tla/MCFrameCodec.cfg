CONSTANTS
    Msgs <- MCMsgs
    OutCap <- MCOutCap
    UsizeMod = 1073741824
    U32Mod = 16777216
    OverflowChecks = FALSE
SPECIFICATION Spec
INVARIANTS DecodedMatchesSent NeedMoreIsExact
PROPERTY AllDelivered
\* The sender has a finite list of messages: the stream stops once all
\* are decoded.
CHECK_DEADLOCK FALSE
