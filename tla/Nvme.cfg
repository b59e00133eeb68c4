\* The NVMe host drivers and the targets, one component at a time.
SPECIFICATION MCSpec
CONSTANTS
    Req = {"a", "b"}
    Kind <- RqKind
    MR = {"m1", "m2"}
    MaxErrors = 1
    MaxStarts = 2
    Queues = {"q1", "q2"}
    Dev = {"d1", "d2"}
    MaxAttempts = 2
    Port = {"p1"}
    Subsys = {"s1", "s2"}
    Host = {"h1"}
    Ns = {"n1"}
    Group = {1, 2}
    Addr = {"a1"}
    MaxWrites = 2
INVARIANTS
      ReceivedIntact   ReleasedOnce
     NothingDangles ConfigConsistent
PROPERTIES HandledBeforeConnecting
CHECK_DEADLOCK FALSE
