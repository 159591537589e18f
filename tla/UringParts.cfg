SPECIFICATION UringSpec
CONSTANTS
    N = 8
    Byte <- MCByte
    MsgType = {1, 2}
    Bodies <- MCBodies
    BodyCap = 3
    MaxPosts = 3
    Ctl = {c1, c2}
    Caller = {k1, k2}
    Nobody = Nobody
    Capacity = 3
    GenWidth = 2
    Account = {7, 8}
    WorkerId = {0, 1}
    MaxId = 4
    K = 3
    Main = Main
INVARIANTS
    DeliveredInOrder
    StopSticks
    ValidateIsExact
    ProducerHasConsumers
    FrameOutlivesThreads
PROPERTIES
    EventuallyReceived
    StopLeadsToJoin
    NeverResurrected
    MainIsOwner
    SignalShutsDown
