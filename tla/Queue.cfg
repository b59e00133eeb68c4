\* The send queue.  SndBuf is that of the parts mixed and delay.
SPECIFICATION MCSpec
CONSTANTS
    Req = {r1, r2, r3}
    Kinds <- AllKinds
    MaxPages = 2
    AggregationSize = 2
    CaravanCapacity = 4
    MaxIovs = 3
    MaxMapped = 2
    PduLen = 1
    PageLen = 2
    SndBuf = 99
    ShortSends = FALSE
    Legacy = FALSE
    DataDigest = FALSE
    SameCpu = TRUE
    SendErrors = {"EPIPE"}
SYMMETRY Symmetry
INVARIANTS TypeOK ReqAccounting DoorbellRung CaravanFits NoneForgotten
PROPERTIES FifoStream
CHECK_DEADLOCK FALSE
