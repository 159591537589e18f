SPECIFICATION SdsSpec
CONSTANTS
    Fd = {5, 6, 7}
    g_slots = 3
    Name <- MCName
    NUL = 0
    k_max_payload = 2
    k_rx_ring = 5
    StringBuf = 3
    RingBuf = 7
    MaxSent = 2
INVARIANTS
    RoomsAreWhoJoined
    HandledInOrder
    BacklogNeverFires
PROPERTY WholeFramesHandled
CHECK_DEADLOCK FALSE
