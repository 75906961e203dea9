CONSTANTS
    N = 3
    Addrs = {a}
    Words = {w}
    Lanes = {b}
    Addr0 = a
    Word0 = w
SPECIFICATION Spec
INVARIANTS TypeOK Attribution BoundedBypass
PROPERTY LockExcludes
