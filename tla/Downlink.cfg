\* Fragments, a full buffer and two turns started over the reply.
SPECIFICATION Spec
CONSTANTS
    BodyLen = 2
    MessageLen = 6
    PayloadLen = 5
    BufferLen = 8
    Fragmented = TRUE
    MaxUnits = 18
    MaxStarts = 1
INVARIANTS
    StreamIntact
    NoFrameTwice
