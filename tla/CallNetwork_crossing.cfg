SPECIFICATION FairSpec
CONSTANTS
    MaxRequests = 2
    MaxCallers = 2
    MaxTroubles = 1
    Alerting = TRUE
INVARIANT IncomingWatched
PROPERTY IncomingResolved
PROPERTY DialingEnds
CHECK_DEADLOCK FALSE
