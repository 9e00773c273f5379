\* Four pushes and three restarts: updates and retries that overtake an end.
\* A mute image runs on with nothing to do when no restart is left: that is
\* the one place where the model stops.
SPECIFICATION FairSpec
CONSTANTS
    MaxPushes = 4
    MaxResets = 3
CHECK_DEADLOCK FALSE
INVARIANTS
    FlashSafe
    PhaseIsTold
PROPERTIES
    AnnouncedRuns
    UpdateEnds
    BadImageGoes
