SPECIFICATION FairSpec
CONSTANTS
    Apps = {"calendar"}
    PluginApps = {"calendar"}
    PoolSize = 1
    MaxMessages = 2
    MaxPooled = 2
    MaxDeaths = 2
INVARIANT OneInstance
INVARIANT RunningIsReady
INVARIANT MessagesAccounted
PROPERTY Served
CHECK_DEADLOCK FALSE
