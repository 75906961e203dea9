CONSTANTS
    NHARTS = 2
    NUM_SRCS = 1
    Slots = {83, 85}
    SIP = 83
    EXT = 85
    Stalls = {}
    Careful = FALSE
    MaxFrames = 2
SPECIFICATION Spec
INVARIANT VectorsKnown
