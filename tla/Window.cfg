CONSTANTS
    N = 2
    Harts = {0, 1}
    Addrs = {x, mx, c1, c2}
    x = x
    mx = mx
    c1 = c1
    c2 = c2
    Lanes = {b0}
    Bytes = {0, 1, 2}
    MutexAddrs = {mx}
    CodeAddrs = {c1, c2}
    Mixes <- ProgramMixes
    Addr0 = x
    OwnerLane = b0
    Words <- AllWords
    Word0 <- ZeroWord
    Priv = Priv
    NoAddr = NoAddr
    NoAck = NoAck
SPECIFICATION FairSpec
INVARIANTS TypeOK NoGhost MutexExclusive
PROPERTIES ImplementsMemory AccessAnswered
