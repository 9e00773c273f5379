CONSTANTS
    MaxPinAttempts = 2
    QueueRoom = 1
    MaxLinks = 2
    MaxConfigs = 1
    MaxFaults = 1
SPECIFICATION FairSpec
INVARIANTS PinGuarded SmFollows
PROPERTIES LinkGuarded RestartKeeps Serves
CHECK_DEADLOCK FALSE
