\* One phone over two connections, a card of one cell, two requests to a bucket.
CONSTANTS
    None = None
    Cells = {1}
    BURST = 2
    MaxConns = 2
    MaxIds = 2
    MaxActs = 3
    MaxTaps = 3
SPECIFICATION PhoneSpec
INVARIANTS
    PhoneTypeOK
    RegisteredSocketIsOpen
    UnicastsReachPhone
    CardRestored
    GreenIsSettled
\* When every bound is used up the phone rests.
CHECK_DEADLOCK FALSE
