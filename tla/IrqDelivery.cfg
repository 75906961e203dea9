CONSTANTS
    NHARTS = 1
    NUM_SRCS = 2
    Slots = {83, 85}
    SIP = 83
    EXT = 85
    Stalls = {"EXECUTE", "IRQ_SV", "IRQ_JUMP", "SLEEPING"}
    Careful = TRUE
    MaxFrames = 2
SPECIFICATION FairSpec
INVARIANTS VectorsKnown ReturnsHome OneLevel
PROPERTIES IpiTaken SourceServed
