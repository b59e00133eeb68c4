\* The blk-mq components one at a time.
SPECIFICATION MCSpec
CONSTANTS
    Req = {r1, r2}
    NrTags = 1
    Elevator = TRUE
    Shared = FALSE
    Results = {"resource", "dev_resource"}
    MaxRefused = 1
    MaxPauses = 1
    Queue = {q1, q2}
    NrCpus = 3
    NodeOf <- MCNodeOf
    Depths = {4}
    Reserved = 1
    GrowFails = FALSE
    MaxUpdates = 5

    
    
PROPERTIES
    QuiesceBlocks
CHECK_DEADLOCK FALSE
