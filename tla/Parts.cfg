SPECIFICATION PartsSpec
CONSTANTS
    k_send_cap = 4
    k_max_frame = 2
    Byte = {0, 1}
    Frame <- MCFrame
    Map = {m1, m2}
    Key <- MCKey
    Value = {0, 1}
    Default = 0
    Hash <- MCHash
    InitialCapacity = 1
    FreshCapacity = 2
    Reserve = {7}
    NThreads = 2
    block_size <- MCBlockSize
    capacity <- MCCapacity
    k_region_align = 2
    k_region_slack = 1
    MaxSize = 3
    period = 3
    MaxNow = 9
    MaxWakes = 2
    NoFile = 2
    g_max_conns = 2
    MaxClients = 4
    k_rx_cap = 7
    len_includes_header = TRUE
    node = 0
    MaxSent = 2
    Message <- MCMessage
INVARIANTS
    OneHolder
    NoBurst
    AccountedOnce
    CountsExact
PROPERTIES
    ImplementsOut
    ImplementsMap
    DueTickRuns
    EveryClientAnswered
CHECK_DEADLOCK FALSE
