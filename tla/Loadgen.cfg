SPECIFICATION FairSpec
CONSTANTS
    Fd = {5, 6, 7}
    cfg_conns = 4
    cfg_inflight = 2
    Hello = 2
    FrameSize = {1, 2}
    k_pending_max = 2
    MaxMessages = 3
INVARIANTS
    ConnsAccounted
    TailIsArmed
PROPERTY ConnectEnds
CHECK_DEADLOCK FALSE
