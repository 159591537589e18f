SPECIFICATION Spec
CONSTANTS
    Fd = {5, 6}
    cfg_conns = 3
    cfg_inflight = 2
    Hello = 2
    FrameSize = {1, 2}
    k_pending_max = 2
    MaxMessages = 4
INVARIANT DeathsCounted
CHECK_DEADLOCK FALSE
