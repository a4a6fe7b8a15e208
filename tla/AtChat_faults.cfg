SPECIFICATION FairSpec
CONSTANTS
    Kinds = {"plain"}
    SlotKinds = {"plain"}
    MaxCommands = 3
    Notes = {}
    MaxNotes = 0
    MaxSuspends = 0
    MaxFailures = 1
    MaxWire = 2
    DeadTimeout = TRUE
    RetryOnNonEcho = TRUE
    WakeupActive = FALSE
    Echo = TRUE
    MayBeDeaf = TRUE
INVARIANT Watched
INVARIANT InOrder
INVARIANT OnlyHeadPrimed
INVARIANT TimersHaveCommand
PROPERTY ServiceSafety
PROPERTY EveryCommandEnds
CHECK_DEADLOCK FALSE
