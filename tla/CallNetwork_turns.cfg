SPECIFICATION Spec
CONSTANTS
    MaxRequests = 4
    MaxCallers = 3
    MaxTroubles = 0
    Alerting = FALSE
INVARIANT IdsAccounted
INVARIANT ShownAsIs
CHECK_DEADLOCK FALSE
