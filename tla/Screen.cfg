\* Four tasks' callbacks, the camera and the frame loop.
SPECIFICATION ScreenFairSpec
CONSTANT HoldFrames = 2
INVARIANTS
    NetworkSceneStays
    TurnShown
PROPERTIES
    WindowEnds
