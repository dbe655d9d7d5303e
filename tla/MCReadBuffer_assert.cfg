\* The BytesMut client: read_cookie, then read_into_bytes_mut.
CONSTANTS
    Inputs <- MCInputs
    Api = {"fn"}
    InitCaps = {0, 1, 2, 3, 4, 5, 6}
    CookieSize = 2
    ReserveSlack = 1
SPECIFICATION Spec
INVARIANT ReadIntoAssertionsHold
CHECK_DEADLOCK FALSE
