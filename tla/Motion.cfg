\* Every order of four commands, among them walks above and below the cap.
SPECIFICATION MotionFairSpec
CONSTANTS
    QueueDepth = 2
    MAX_WALK_STEPS = 2
    JOINT_COUNT = 6
    RelaxIdle = 1
    Params = {0, 3, 6}
    MaxPosts = 4
INVARIANTS
    StopWithinOneSequence
    StopWithinAPhase
PROPERTIES
    CutOnlyByNewer
    Relaxes
