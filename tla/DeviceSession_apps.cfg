SPECIFICATION FairSpec
CONSTANTS
    Ids = {1, 2}
    Clients = {"c1", "c2"}
    Controls = {"DEVICE_UP_TIMED", "DEVICE_DOWN"}
    MaxStarts = 2
    MaxTroubles = 1
INVARIANT QueueInOrder
INVARIANT SessionsBacked
INVARIANT ClientKnows
PROPERTY RequestAnswered
CHECK_DEADLOCK FALSE
