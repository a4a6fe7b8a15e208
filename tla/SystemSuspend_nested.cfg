SPECIFICATION FairSpec
CONSTANTS
    N = 3
    Async = {2, 3}
    MaxRequests = 3
    MaxInputs = 1
    Nested = TRUE
INVARIANT ReplyOnItsWay
PROPERTY EverySuspendEnds
CHECK_DEADLOCK FALSE
