CONSTANTS
    N = 2
    Harts = {0}
    Addrs = {rom, pwr, w1}
    Lanes = {b0}
    MutexAddrs = {}
    CodeAddrs = {rom}
    Mixes <- FromRom
    Addr0 = rom
    OwnerLane = b0
    Words <- AllWords
    Word0 <- ZeroWord
    Priv = Priv
    NoAddr = NoAddr
    NoAck = NoAck
    Tiles = {}
    T_SEQ = 1
    T_RAIL = 2
    STRAP_SETTLE = 8
    TcmAddrs = {w1, p1}
    Tcm <- Contents
    NoRead = NoRead
    Rom = rom
    Pwr = pwr
    RomWord <- BootWord
    Boards <- HarvestedSelf
    MIN_LOW = 4
    MAX_STALL = 7
    W1 = w1
    P1 = p1
SPECIFICATION Spec
INVARIANT ColdBoot
