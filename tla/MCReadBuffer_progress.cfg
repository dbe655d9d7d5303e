\* The BytesMutReader client, looping on read_from, with a peer that has
\* sent six bytes.
CONSTANTS
    Inputs <- MCFullInput
    Api = {"reader"}
    InitCaps = {0, 1, 2, 3, 4, 5, 6}
    CookieSize = 2
    ReserveSlack = 1
SPECIFICATION Spec
PROPERTY EventuallyAllRead
CHECK_DEADLOCK FALSE
