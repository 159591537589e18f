SPECIFICATION VerdictSpec
CONSTANTS
    bucket_ns = 2
    buckets = 3
    Printed = {1, 2}
    PDen = 2
    P99 = 1
    per_room = 2
    cfg_conns = 2
    Tol = 50
    LossPm = 500
    k_lag_ratio = 2
    k_lag_floor_ns = 3
    Ns = {2, 7}
    MaxSent = 1
    MaxIn = 2
    MaxSamples = 1
    MaxWall = 1
INVARIANT BeyondRangeIsSaid
CHECK_DEADLOCK FALSE
