SPECIFICATION Spec
CONSTANTS
    lo = lo  i1 = i1  i2 = i2  i3 = i3
    Ip = {lo, i1, i2, i3}
    Loopback = lo
    N = 2
    RateLimit = 1
    Period = 2
    NaughtyTimeout = 3
    MaxTracking = 4
    NoIp = NoIp
    MaxTime = 5
    MaxPackets = 6
SYMMETRY Interchangeable
INVARIANTS
    TypeOK
    NoFalseBlock
    StaysBlocked
    ThroughBounded
    BlockedForgottenLast
