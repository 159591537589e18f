SPECIFICATION ToolsSpec
CONSTANTS
    Vec = {v1, v2}
    Elem = {a}
    Junk = Junk
    MaxLen = 2
    Thr = {t1, t2}
    Mtx = {m1, m2}
    Var = {x, y}
    None = None
    Scope = {s1, s2}
    Name = {n1, n2}
    Divisor <- MCDivisor
    MaxNs = 2
    MaxCalls = 3
    k_max_payload = 12
    k_prefix_slack = 2
    k_blob_header = 4
    k_size_classes <- MCSizeClasses
    Defaults <- MCDefaults
    Values <- MCValues
    Pool <- MCPool
    Entries = 2
    k_least_fds = 8
    k_spare_fds = 2
    k_spare_conns = 1
    FdLimits <- MCFdLimits
    MaxArgs = 2
    MaxFrames = 4
    bucket_ns = 2
    buckets = 3
    Printed = {1, 2}
    PDen = 2
    P99 = 1
    per_room = 2
    cfg_conns = 2
    Tol = 50
    LossPm = 500
    k_lag_ratio = 2
    k_lag_floor_ns = 3
    Ns <- MCNs
    MaxSent = 2
    MaxIn = 4
    MaxSamples = 3
    MaxWall = 1
INVARIANTS
    OneOwner
    ReportsAreExact
    AcceptedRunIsSound
    VerdictIsJustified
PROPERTY
    ImplementsVector
CHECK_DEADLOCK FALSE
