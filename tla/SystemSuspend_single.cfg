SPECIFICATION FairSpec
CONSTANTS
    N = 4
    Async = {2, 3}
    MaxRequests = 3
    MaxInputs = 2
    Nested = FALSE
INVARIANT SuspendInOrder
INVARIANT WakeInOrder
INVARIANT InputAborts
CHECK_DEADLOCK FALSE
