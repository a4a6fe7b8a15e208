SPECIFICATION FairSpec
CONSTANTS
    MaxMessages = 3
    Datagrams = {2, 3}
    Direct = {3}
    Slots = 2
    MaxFailures = 1
    Announces = TRUE
    KeepFree = 1
    MaxChecks = 1
    UserDeletes = TRUE
INVARIANT OneListOut
INVARIANT CacheComplete
 
INVARIANT NothingUnreadDeleted
PROPERTY EveryMessageDelivered
PROPERTY EveryRetrievalEnds
CHECK_DEADLOCK FALSE
