SPECIFICATION FairSpec

CONSTANTS
    Goroutine = {g1, g2}
    Resource = {rA, rB}
    Token = {t1, t2}
    None = None
    TokenTTL = 2
    TicksPerSecond = 1
    ExpiryBuffer = 1
    MaxTime = 0

INVARIANT
    TypeOK

PROPERTY
    CallsReturn
