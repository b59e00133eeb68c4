\* Request and application steering.  The constants are those of the part nodes.
SPECIFICATION MCSpec
CONSTANTS
    Thread = {t1}
    NrCpus = 5
    NrNodes = 2
    NodeOf <- Alternating
    Params = {0, 3}
    ThreshB = 1
    Batch = 3
    MinNr = 1024
    MinActive = 2048
    Depth = 3
    Loads <- Mix
    MaxChanges = 1
INVARIANTS TypeOK ScanPicksBest TargetOnNode SteersToBetter
PROPERTIES NoPingPong 
CHECK_DEADLOCK FALSE
