\* Progress of the components, under the fairness of their modules; of the life
\* of a request also its safety.
SPECIFICATION MCSpec
CONSTANTS
    Req = {r1}
    Freezer = {f1, f2}
    MaxAlloc = 2
    MaxFreezes = 2
    MaxTries = 1
INVARIANTS PinnedWhileHandled FrozenIsEmpty
PROPERTIES SteeringEnds FreezeCompletes PolledReturns  
CHECK_DEADLOCK FALSE
