SPECIFICATION FairSpec
CONSTANTS
    MaxMessages = 3
    Sizes = {1, 2}
    SendRetries = 2
    ReadyRetries = 2
    MaxNeeds = 1
    MaxLost = 1
INVARIANT SenderInStep
INVARIANT OneReadyRound
INVARIANT SentWhole
PROPERTY DeliveryInTurn
PROPERTY EverySendFinishes
CHECK_DEADLOCK FALSE
