SPECIFICATION FairSpec
CONSTANTS
    Kinds = {"plain", "dial", "pdu"}
    SlotKinds = {"plain", "dial", "pdu"}
    MaxCommands = 3
    Notes = {"note", "pduNote", "reqNote"}
    MaxNotes = 1
    MaxSuspends = 1
    MaxFailures = 0
    MaxWire = 6
    DeadTimeout = FALSE
    RetryOnNonEcho = FALSE
    WakeupActive = FALSE
    Echo = TRUE
    MayBeDeaf = FALSE
INVARIANT NoStall
INVARIANT AnswersMatch
INVARIANT PdusDelivered
CHECK_DEADLOCK FALSE
