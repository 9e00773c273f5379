CONSTANTS
    PreBuf = 6
    EncRoom = 8
    PcmRoom = 2
    PlayBuf = 2
    MaxErrors = 3
    MaxReplies = 2
    MaxFrames = 4
    MaxCuts = 1
SPECIFICATION FairSpec
INVARIANTS StreamAligned NoOldAudio
PROPERTIES ReplyRuns
CHECK_DEADLOCK FALSE
