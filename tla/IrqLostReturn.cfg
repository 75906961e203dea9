CONSTANTS
    NHARTS = 1
    NUM_SRCS = 1
    Slots = {83, 85}
    SIP = 83
    EXT = 85
    Stalls = {"EXECUTE", "MEMORY_WAIT"}
    Careful = TRUE
    MaxFrames = 2
SPECIFICATION Spec
INVARIANT ReturnsHome
