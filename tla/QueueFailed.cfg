SPECIFICATION OneSpec
CONSTANTS
    Req = {r1, r2}
    Kinds <- DelayedKinds
    MaxPages = 2
    AggregationSize = 2
    CaravanCapacity = 4
    MaxIovs = 4
    MaxMapped = 2
    PduLen = 1
    PageLen = 2
    SndBuf = 99
    ShortSends = FALSE
    Legacy = FALSE
    DataDigest = FALSE
    SameCpu = FALSE
    SendErrors = {"ENOMEM"}
SYMMETRY Symmetry
INVARIANTS FailsTheRequest
CHECK_DEADLOCK FALSE
