\* Progress of the send queue: flushes and delayed writes on io_cpu, with a buffer
\* that never fills; the part legacy has its own constants.
SPECIFICATION LiveSpec
CONSTANTS
    Req = {"r1", "r2"}
    Kinds <- LiveKinds
    MaxPages = 2
    AggregationSize = 3
    CaravanCapacity = 4
    MaxIovs = 4
    MaxMapped = 2
    PduLen = 1
    PageLen = 2
    SndBuf = 99
    ShortSends = FALSE
    Legacy = FALSE
    DataDigest = FALSE
    SameCpu = TRUE
    SendErrors = {}
PROPERTIES  NoDelayServed
CHECK_DEADLOCK FALSE
