\* One fault on the line among two pictures and a command.
CONSTANTS
    MAX_PAYLOAD = 4
    RingSize = 16
    MaxTotal = 5
    Lengths = {3, 5, 6}
    MaxRequests = 2
    MaxCommands = 1
    MaxFaults = 1
SPECIFICATION Spec
INVARIANTS
    FramesSound
    PlaceIsFound
    WholeImage
CHECK_DEADLOCK FALSE
