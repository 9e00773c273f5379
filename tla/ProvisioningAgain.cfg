CONSTANTS
    MaxPinAttempts = 2
    QueueRoom = 1
    MaxLinks = 2
    MaxConfigs = 1
    MaxFaults = 1
SPECIFICATION FairSpec
PROPERTIES ServesAgain
CHECK_DEADLOCK FALSE
