SPECIFICATION FairSpec
CONSTANTS
    Kinds = {"plain", "dial"}
    SlotKinds = {}
    MaxCommands = 3
    Notes = {"note"}
    MaxNotes = 1
    MaxSuspends = 0
    MaxFailures = 0
    MaxWire = 6
    DeadTimeout = FALSE
    RetryOnNonEcho = FALSE
    WakeupActive = TRUE
    Echo = TRUE
    MayBeDeaf = FALSE
INVARIANT NotRepeated
INVARIANT AbortAfterDial
CHECK_DEADLOCK FALSE
