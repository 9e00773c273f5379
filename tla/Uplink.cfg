CONSTANTS
    SpiRoom = 1
    TxRoom = 5
    BatchRoom = 3
    TextRoom = 1
    MaxTurns = 2
    MaxFrames = 3
    MaxLogs = 1
    MaxFaults = 1
SPECIFICATION UplinkFairSpec
PROPERTIES OnTheWire RecordingEnds
CHECK_DEADLOCK FALSE
