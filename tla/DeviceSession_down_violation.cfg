SPECIFICATION Spec
CONSTANTS
    Ids = {1, 2}
    Clients = {"c1", "c2"}
    Controls = {"DEVICE_DOWN"}
    MaxStarts = 2
    MaxTroubles = 1
PROPERTY SessionsCleared
CHECK_DEADLOCK FALSE
