CONSTANTS
    StatusDepth = 1
    Depth = 1
    Line = 1
    MaxWakes = 1
    MaxUpsets = 1
SPECIFICATION FairSpec
INVARIANTS Mirrored
PROPERTIES SpeakDoneEndsReply MicCloses Converges
CHECK_DEADLOCK FALSE
