\* Both clients; a BytesMut created with capacity 0 (BytesMut::new) to 6;
\* a cookie of 2 bytes; reserve may allocate one byte more than asked.  A
\* client that has read everything awaits the next read forever, so
\* deadlock is not an error.
CONSTANTS
    Inputs <- MCInputs
    Api = {"fn", "reader"}
    InitCaps = {0, 1, 2, 3, 4, 5, 6}
    CookieSize = 2
    ReserveSlack = 1
SPECIFICATION Spec
INVARIANTS TypeOK NoBytesLostOrReordered ReadNAssertionsHold
CHECK_DEADLOCK FALSE
