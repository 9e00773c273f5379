\* Boards with push-to-talk buttons on both sides; a wake word alone starts
\* turns on the shipped ones.
SPECIFICATION FairSpec
CONSTANTS
    ListenMax = 3
    ProcessingTimeout = 2
    SpeakingStall = 1
    Buttons = TRUE
    MaxTurns = 2
    MaxReplies = 2
    MaxDrops = 1
INVARIANTS
    AgesBounded
    GateClosed
    ReplySpeaks
PROPERTIES
    TurnEnds
    ImplementsTurn
