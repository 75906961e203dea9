CONSTANTS
    NHARTS = 3
    NUM_SRCS = 1
    Slots = {83, 85}
    SIP = 83
    EXT = 85
    Stalls = {"EXECUTE"}
    Careful = FALSE
    MaxFrames = 2
SPECIFICATION Spec
INVARIANTS TypeOK ExactlyOnce
